---------------------------- MODULE Spec2Model ----------------------------
(***************************************************************************)
(* The data preparation pipeline of dm_data_analyzer:                      *)
(* DataProcessor.prepare_data (src/src/data_processor.py) and the caller   *)
(* that drives it, UI.show_data_processing (src/src/user_interface.py).    *)
(*                                                                         *)
(* A table is a pandas DataFrame: a row index (the row labels) and a       *)
(* sequence of columns, each with a name, a dtype and one cell per row.    *)
(* The library calls the code makes (pandas, scikit-learn) are modelled by *)
(* what they do to such a table, for pandas >= 2.0 without copy-on-write   *)
(* and scikit-learn >= 1.2.                                                *)
(***************************************************************************)
EXTENDS Integers, Sequences, FiniteSets, TLC

(***************************************************************************)
(* Exact rational arithmetic: the means, medians, quantiles and clipping   *)
(* bounds the stages compute.  A rational is [n |-> numerator,             *)
(* d |-> denominator > 0] in lowest terms.                                 *)
(***************************************************************************)
Abs(i) == IF i < 0 THEN -i ELSE i

RECURSIVE Gcd(_, _)
Gcd(a, b) == IF b = 0 THEN a ELSE Gcd(b, a % b)

RNorm(n, d) ==
    LET reduced(s, g) == [n |-> (s * n) \div g, d |-> (s * d) \div g]
    IN  IF n = 0 THEN [n |-> 0, d |-> 1]
        ELSE reduced(IF d < 0 THEN -1 ELSE 1, Gcd(Abs(n), Abs(d)))

RInt(i) == [n |-> i, d |-> 1]

\* The least common multiple of two positive integers.
Lcm(a, b) == (a \div Gcd(a, b)) * b

RNeg(a) == [n |-> -a.n, d |-> a.d]

RAdd(a, b) ==
    LET over(l) == RNorm(a.n * (l \div a.d) + b.n * (l \div b.d), l)
    IN  IF a.n = 0 THEN b
        ELSE IF b.n = 0 THEN a
        ELSE over(Lcm(a.d, b.d))

RSub(a, b) == RAdd(a, RNeg(b))

\* Common factors are taken out before the product, to keep it small.
RMul(a, b) ==
    LET cross(g, h) == RNorm((a.n \div g) * (b.n \div h), (a.d \div h) * (b.d \div g))
    IN  IF a.n = 0 \/ b.n = 0 THEN RInt(0)
        ELSE cross(Gcd(Abs(a.n), b.d), Gcd(Abs(b.n), a.d))

\* a / b for b # 0.
RDiv(a, b) == RMul(a, [n |-> IF b.n < 0 THEN -b.d ELSE b.d, d |-> Abs(b.n)])

RLt(a, b) ==
    LET over(l) == a.n * (l \div a.d) < b.n * (l \div b.d)
    IN  over(Lcm(a.d, b.d))

RLe(a, b) == ~RLt(b, a)

(***************************************************************************)
(* Sequence helpers.                                                       *)
(***************************************************************************)
Range(s) == {s[i] : i \in DOMAIN s}

RECURSIVE SelectIdx(_, _, _)
\* The positions i >= from of s, in order, whose element satisfies keep.
SelectIdx(s, keep(_), from) ==
    IF from > Len(s) THEN <<>>
    ELSE IF keep(from) THEN <<from>> \o SelectIdx(s, keep, from + 1)
    ELSE SelectIdx(s, keep, from + 1)

Pick(s, pos) == [i \in 1..Len(pos) |-> s[pos[i]]]

RECURSIVE Flatten(_)
Flatten(ss) == IF ss = <<>> THEN <<>> ELSE Head(ss) \o Flatten(Tail(ss))

(***************************************************************************)
(* Text.  A string is a sequence of one-character strings, so that the     *)
(* string operations of the code (strip, lower, re.sub, replace, the       *)
(* parsers) are computed and not assumed.                                  *)
(***************************************************************************)
Whitespace == {" ", "\t"}
Upper == {"A", "B", "T", "F"}
Digits == {"0", "1", "2", "3", "4", "5", "6", "7", "8", "9"}
WordChars == {"a", "b", "c", "d", "e", "l", "n", "o", "r", "s", "u", "x", "y", "_"}
                 \cup Upper \cup Digits

LowerChar(c) ==
    CASE c = "A" -> "a"
      [] c = "B" -> "b"
      [] c = "T" -> "t"
      [] c = "F" -> "f"
      [] OTHER -> c

RECURSIVE LStrip(_)
LStrip(s) == IF s # <<>> /\ Head(s) \in Whitespace THEN LStrip(Tail(s)) ELSE s

RECURSIVE RStrip(_)
RStrip(s) ==
    IF s # <<>> /\ s[Len(s)] \in Whitespace THEN RStrip(SubSeq(s, 1, Len(s) - 1)) ELSE s

\* str.strip()
Strip(s) == RStrip(LStrip(s))

\* str.lower()
Lower(s) == [i \in 1..Len(s) |-> LowerChar(s[i])]

\* re.sub(r'[^\w\s]', '', s)
StripPunct(s) == Pick(s, SelectIdx(s, LAMBDA i : s[i] \in WordChars \cup Whitespace, 1))

\* s.replace(' ', '_')
SpacesToUnderscores(s) == [i \in 1..Len(s) |-> IF s[i] = " " THEN "_" ELSE s[i]]

\* The canonical column name of basic_cleaning.
NormalizeName(s) == SpacesToUnderscores(StripPunct(Lower(Strip(s))))

DigitValue(c) ==
    CASE c = "0" -> 0 [] c = "1" -> 1 [] c = "2" -> 2 [] c = "3" -> 3 [] c = "4" -> 4
      [] c = "5" -> 5 [] c = "6" -> 6 [] c = "7" -> 7 [] c = "8" -> 8 [] c = "9" -> 9

IsDigits(s) == s # <<>> /\ \A i \in DOMAIN s : s[i] \in Digits

RECURSIVE DigitsValue(_)
DigitsValue(s) ==
    IF s = <<>> THEN 0 ELSE 10 * DigitsValue(SubSeq(s, 1, Len(s) - 1)) + DigitValue(s[Len(s)])

RECURSIVE IntText(_)
\* str(i) for i >= 0
IntText(i) ==
    LET text(last) == IF i < 10 THEN <<last>> ELSE Append(IntText(i \div 10), last)
    IN  text(CHOOSE c \in Digits : DigitValue(c) = i % 10)

(***************************************************************************)
(* Cells, columns and tables.                                              *)
(*                                                                         *)
(* A cell is [k, n, d, s]: k = "na" is a missing value (NaN, None, NaT);   *)
(* k = "num" is the number n/d; k = "str" is the text s; k = "bool" is     *)
(* True (n = 1) or False (n = 0); k = "date" is a timestamp of year n.     *)
(* A column is [name, dtype, vals, u2]: dtype is "num" (int64/float64),    *)
(* "obj" (object), "dt" (datetime64) or "bool"; u2 is the square of the    *)
(* unit its numbers are measured in (1 except after standard scaling,      *)
(* whose results are (x - mean) in units of the standard deviation).       *)
(* A table is [idx, cols]: idx holds the row labels of the DataFrame's     *)
(* index, cols the columns from left to right.                             *)
(***************************************************************************)
NA == [k |-> "na", n |-> 0, d |-> 1, s |-> <<>>]
Num(r) == [k |-> "num", n |-> r.n, d |-> r.d, s |-> <<>>]
Str(s) == [k |-> "str", n |-> 0, d |-> 1, s |-> s]
Bool(b) == [k |-> "bool", n |-> IF b THEN 1 ELSE 0, d |-> 1, s |-> <<>>]
Date(y) == [k |-> "date", n |-> y, d |-> 1, s |-> <<>>]

IsNA(c) == c.k = "na"
Rat(c) == [n |-> c.n, d |-> c.d]
One == RInt(1)

Col(name, dtype, vals) == [name |-> name, dtype |-> dtype, vals |-> vals, u2 |-> One]

NRows(t) == Len(t.idx)
NCols(t) == Len(t.cols)
ColNames(t) == [i \in 1..NCols(t) |-> t.cols[i].name]

\* The position of the column called name (the first one, as df[name] finds it).
ColPos(t, name) == CHOOSE i \in 1..NCols(t) :
                       /\ t.cols[i].name = name
                       /\ \A j \in 1..(i - 1) : t.cols[j].name # name

HasCol(t, name) == \E i \in 1..NCols(t) : t.cols[i].name = name

\* Row r of the table, one cell per column.
Row(t, r) == [i \in 1..NCols(t) |-> t.cols[i].vals[r]]

\* The rows at the positions pos, in that order, with their labels.
TakeRows(t, pos) ==
    [idx  |-> Pick(t.idx, pos),
     cols |-> [i \in 1..NCols(t) |-> [t.cols[i] EXCEPT !.vals = Pick(t.cols[i].vals, pos)]]]

\* The columns at the positions pos, in that order.
TakeCols(t, pos) == [t EXCEPT !.cols = Pick(t.cols, pos)]

\* df.select_dtypes(include=...): the positions of the columns of these dtypes.
SelectDtypes(t, dtypes) == SelectIdx(t.cols, LAMBDA i : t.cols[i].dtype \in dtypes, 1)

MissingCount(c) == Cardinality({r \in DOMAIN c.vals : IsNA(c.vals[r])})

\* Every column holds one cell per row label.
Rectangular(t) == \A i \in 1..NCols(t) : Len(t.cols[i].vals) = Len(t.idx)

(***************************************************************************)
(* Diagnostics.  A log entry is what one Logger call records: the          *)
(* severity, the message template, and the column, count and method the    *)
(* message is formatted with.                                              *)
(***************************************************************************)
Entry(sev, msg, col, n, m) == [sev |-> sev, msg |-> msg, col |-> col, n |-> n, m |-> m]
Info(msg) == Entry("info", msg, <<>>, 0, "")
InfoCol(msg, col) == Entry("info", msg, col, 0, "")
Error(where) == Entry("error", "Error in", <<>>, 0, where)

(***************************************************************************)
(* The frame of a stage: df is the table the local variable df is bound    *)
(* to, aliased says whether that is still the very object the caller       *)
(* passed in, orig is the caller's object, log the diagnostics so far.     *)
(***************************************************************************)
\* An assignment into the object df is bound to (df[...] = ..., df.columns = ...).
InPlace(st, t) == [st EXCEPT !.df = t, !.orig = IF st.aliased THEN t ELSE st.orig]

\* df = <a new DataFrame>: the caller's object is no longer reachable through df.
Rebind(st, t) == [st EXCEPT !.df = t, !.aliased = FALSE]

Logged(st, e) == [st EXCEPT !.log = Append(st.log, e)]

(***************************************************************************)
(* Stage 1: basic_cleaning.                                                *)
(***************************************************************************)
\* Lines 63-64: every column name replaced by its canonical name.
RenameAll(t) ==
    [t EXCEPT !.cols = [i \in 1..NCols(t) |-> [t.cols[i] EXCEPT !.name = NormalizeName(@)]]]

\* The kinds of the non-missing cells of a column.
CellKinds(c) == {c.vals[r].k : r \in DOMAIN c.vals} \ {"na"}

\* Whether x.str exists for an object column: pandas refuses the accessor
\* (AttributeError) when the values are all booleans, all numbers or all dates.
StrAccessorOk(c) == CellKinds(c) \notin {{"bool"}, {"num"}, {"date"}}

\* x.str.strip(): text is trimmed, a value that is not text becomes missing.
StripCol(c) ==
    [c EXCEPT !.vals = [r \in DOMAIN c.vals |->
        IF c.vals[r].k = "str" THEN Str(Strip(c.vals[r].s)) ELSE NA]]

\* Line 68: the object columns replaced by their stripped values.
StripObjects(t) ==
    [t EXCEPT !.cols = [i \in 1..NCols(t) |->
        IF t.cols[i].dtype = "obj" THEN StripCol(t.cols[i]) ELSE t.cols[i]]]

\* Line 71: df.dropna(axis=1, how='all').
DropAllMissingCols(t) ==
    TakeCols(t, SelectIdx(t.cols,
                          LAMBDA i : \E r \in DOMAIN t.cols[i].vals : ~IsNA(t.cols[i].vals[r]), 1))

basic_cleaning(st) ==
    LET stripped(named, t) ==
            Logged(Rebind(InPlace(named, t), DropAllMissingCols(t)),
                   Info("Basic cleaning completed."))
        cleaned(named) ==
            IF \E i \in Range(SelectDtypes(named.df, {"obj"})) :
                   ~StrAccessorOk(named.df.cols[i])
            THEN Logged(named, Error("basic_cleaning"))
            ELSE stripped(named, StripObjects(named.df))
    IN  cleaned(InPlace(st, RenameAll(st.df)))

(***************************************************************************)
(* Stage 2: handle_duplicates.                                             *)
(***************************************************************************)
DuplicateMethods == {"first", "last", "all"}

\* A comparison of rows in which a missing value equals nothing.
DropDuplicatesMissingDistinct(t, keep) ==
    LET same(r, q) == Row(t, r) = Row(t, q) /\ \A i \in 1..NCols(t) : ~IsNA(Row(t, r)[i])
        kept(r) ==
            CASE keep = "first" -> \A q \in 1..(r - 1) : ~same(r, q)
              [] keep = "last"  -> \A q \in (r + 1)..NRows(t) : ~same(r, q)
              [] OTHER          -> \A q \in 1..NRows(t) : q = r \/ ~same(r, q)
    IN  TakeRows(t, SelectIdx(t.idx, kept, 1))

\* df.drop_duplicates(keep=...): rows are compared on every column, a missing
\* value equal to a missing value; the rows kept hold their labels.
DropDuplicates(t, keep) ==
    LET same(r, q) == Row(t, r) = Row(t, q)
        kept(r) ==
            CASE keep = "first" -> \A q \in 1..(r - 1) : ~same(r, q)
              [] keep = "last"  -> \A q \in (r + 1)..NRows(t) : ~same(r, q)
              [] OTHER          -> \A q \in 1..NRows(t) : q = r \/ ~same(r, q)
    IN  TakeRows(t, SelectIdx(t.idx, kept, 1))

\* A resolver that reports the rows it kept.
handle_duplicates_counting_kept(st, method) ==
    LET kept(after) ==
            Logged(after, Entry("info", "Removed duplicate rows.", <<>>, NRows(after.df), ""))
    IN  kept(IF method \in DuplicateMethods
             THEN Rebind(st, DropDuplicates(st.df, method))
             ELSE st)

handle_duplicates(st, method) ==
    LET removed(after) ==
            Logged(after, Entry("info", "Removed duplicate rows.", <<>>,
                                NRows(st.df) - NRows(after.df), ""))
    IN  removed(IF method \in DuplicateMethods
                THEN Rebind(st, DropDuplicates(st.df, method))
                ELSE st)

(***************************************************************************)
(* Stage 3: handle_missing_values.                                         *)
(***************************************************************************)
ImputerMethods == {"mean", "median", "most_frequent"}

\* Code point order of the modelled characters.
CharRank(c) ==
    CASE c = " " -> 0
      [] c = "!" -> 1
      [] c \in Digits -> 10 + DigitValue(c)
      [] c = "A" -> 30 [] c = "B" -> 31 [] c = "F" -> 32 [] c = "T" -> 33
      [] c = "_" -> 40
      [] c = "a" -> 50 [] c = "b" -> 51 [] c = "c" -> 52 [] c = "d" -> 53
      [] c = "e" -> 54 [] c = "l" -> 55 [] c = "n" -> 56 [] c = "o" -> 57
      [] c = "r" -> 58 [] c = "s" -> 59 [] c = "u" -> 60 [] c = "x" -> 61
      [] c = "y" -> 62

RECURSIVE TextLt(_, _)
\* a < b for two Python strings.
TextLt(a, b) ==
    IF b = <<>> THEN FALSE
    ELSE IF a = <<>> THEN TRUE
    ELSE IF Head(a) = Head(b) THEN TextLt(Tail(a), Tail(b))
    ELSE CharRank(Head(a)) < CharRank(Head(b))

\* a < b for two cells of one kind (numbers, texts, booleans, dates).
CellLt(a, b) == IF a.k = "str" THEN TextLt(a.s, b.s) ELSE RLt(Rat(a), Rat(b))

\* float(x) succeeds: a number, a boolean, or text that is a number.
FloatOk(c) == c.k \in {"num", "bool"} \/ (c.k = "str" /\ IsDigits(Strip(c.s)))

\* float(x)
ToFloat(c) == IF c.k = "str" THEN RInt(DigitsValue(Strip(c.s))) ELSE Rat(c)

RECURSIVE RSum(_)
\* The sum of the rationals rs, by halves.
RSum(rs) ==
    IF rs = <<>> THEN RInt(0)
    ELSE IF Len(rs) = 1 THEN rs[1]
    ELSE RAdd(RSum(SubSeq(rs, 1, Len(rs) \div 2)),
              RSum(SubSeq(rs, Len(rs) \div 2 + 1, Len(rs))))

\* The rationals of rs in ascending order: the element at position i goes
\* to the place after those less than it and those equal to it left of it.
SortRats(rs) ==
    LET place(i) == Cardinality({j \in DOMAIN rs : RLt(rs[j], rs[i]) \/ (rs[j] = rs[i] /\ j <= i)})
    IN  [k \in DOMAIN rs |-> rs[CHOOSE i \in DOMAIN rs : place(i) = k]]

RMean(rs) == RDiv(RSum(rs), RInt(Len(rs)))

RMedian(rs) ==
    LET middle(s, n) == IF n % 2 = 1 THEN s[(n + 1) \div 2]
                        ELSE RDiv(RAdd(s[n \div 2], s[n \div 2 + 1]), RInt(2))
    IN  middle(SortRats(rs), Len(rs))

\* The observed (non-missing) cells of a column, in row order.
Observed(c) == Pick(c.vals, SelectIdx(c.vals, LAMBDA r : ~IsNA(c.vals[r]), 1))

\* SimpleImputer(strategy='most_frequent'): the most frequent observed value
\* and, among several of the highest frequency, the smallest of them.
MostFrequent(obs) ==
    LET count(v)      == Cardinality({i \in DOMAIN obs : obs[i] = v})
        smallest(top) == CHOOSE v \in top : \A w \in top : w = v \/ CellLt(v, w)
    IN  smallest({v \in Range(obs) : \A w \in Range(obs) : count(w) <= count(v)})

\* Whether SimpleImputer(strategy=method).fit_transform(df[[column]]) and the
\* assignment of its result raise: no observed value (the column is dropped
\* from the result, which no longer fits), or mean/median of values that are
\* not numbers.
ImputerRaises(c, method) ==
    \/ Observed(c) = <<>>
    \/ /\ method \in {"mean", "median"}
       /\ \E r \in DOMAIN c.vals : ~IsNA(c.vals[r]) /\ ~FloatOk(c.vals[r])

\* The column after df[[column]] = imputer.fit_transform(df[[column]]).
Imputed(c, method) ==
    LET nums(obs) == [i \in DOMAIN obs |-> ToFloat(obs[i])]
        statistic(obs) ==
            CASE method = "mean"   -> Num(RMean(nums(obs)))
              [] method = "median" -> Num(RMedian(nums(obs)))
              [] OTHER             -> MostFrequent(obs)
        conv(v) == IF method = "most_frequent" THEN v ELSE Num(ToFloat(v))
        filled(fill) ==
            [c EXCEPT !.vals = [r \in DOMAIN c.vals |->
                                   IF IsNA(c.vals[r]) THEN fill ELSE conv(c.vals[r])],
                      !.dtype = IF method = "most_frequent" THEN c.dtype ELSE "num"]
    IN  filled(statistic(Observed(c)))

\* df[column].fillna(0)
FillZero(c) ==
    [c EXCEPT !.vals = [r \in DOMAIN c.vals |->
                           IF IsNA(c.vals[r]) THEN Num(RInt(0)) ELSE c.vals[r]]]

SetCol(t, i, c) == [t EXCEPT !.cols[i] = c]

\* A turn that counts the missing values of the column in the table as the
\* caller passed it.
MissingTurnOnSnapshot(st, name, method) ==
    LET done(s) == Logged(s, Entry("info", "Handled missing values", name, 0, method))
        dropped(c) == Rebind(st, TakeRows(st.df, SelectIdx(c.vals, LAMBDA r : ~IsNA(c.vals[r]), 1)))
    IN  IF MissingCount(st.orig.cols[ColPos(st.orig, name)]) = 0
        THEN [st |-> st, raised |-> FALSE]
        ELSE [st |-> done(dropped(st.df.cols[ColPos(st.df, name)])), raised |-> FALSE]

\* One turn of the loop of lines 98-113, for the column called name.  The
\* result is [st, raised]: the frame after the turn and whether it raised.
MissingTurn(st, name, method) ==
    LET done(s) == Logged(s, Entry("info", "Handled missing values", name, 0, method))
        handled(i, c, warned) ==
            IF method = "drop"
            THEN [st |-> done(Rebind(warned, TakeRows(st.df,
                             SelectIdx(c.vals, LAMBDA r : ~IsNA(c.vals[r]), 1)))),
                  raised |-> FALSE]
            ELSE IF method \in ImputerMethods
            THEN IF ImputerRaises(c, method)
                 THEN [st |-> warned, raised |-> TRUE]
                 ELSE [st |-> done(InPlace(warned, SetCol(st.df, i, Imputed(c, method)))),
                       raised |-> FALSE]
            ELSE IF method = "constant"
            THEN [st |-> done(InPlace(warned, SetCol(st.df, i, FillZero(c)))),
                  raised |-> FALSE]
            ELSE [st |-> done(warned), raised |-> FALSE]
        counted(i, c, missing) ==
            IF missing = 0 THEN [st |-> st, raised |-> FALSE]
            ELSE handled(i, c, IF 2 * missing > NRows(st.df)
                               THEN Logged(st, Entry("warning",
                                                     "Consider dropping this column.",
                                                     name, 0, ""))
                               ELSE st)
        column(i) == counted(i, st.df.cols[i], MissingCount(st.df.cols[i]))
    IN  column(ColPos(st.df, name))

RECURSIVE MissingLoop(_, _, _)
\* The loop of line 98 over the column names the table had when it started.
MissingLoop(st, names, method) ==
    IF names = <<>> THEN [st |-> st, raised |-> FALSE]
    ELSE LET after(turn) ==
                 IF turn.raised THEN turn ELSE MissingLoop(turn.st, Tail(names), method)
         IN  after(MissingTurn(st, Head(names), method))

handle_missing_values(st, method) ==
    LET guarded(end) ==
            IF end.raised THEN Logged(end.st, Error("handle_missing_values")) ELSE end.st
    IN  guarded(MissingLoop(st, ColNames(st.df), method))

(***************************************************************************)
(* Stage 4: convert_data_types.                                            *)
(***************************************************************************)
\* Text pandas reads as a timestamp: in the modelled alphabet, a four-digit
\* year inside the range of Timestamp (a digit string below 1000 is "not
\* likely a datetime", a year outside the range is out of bounds; both are
\* ValueErrors).
DateLike(s) == IsDigits(s) /\ Len(s) = 4 /\ DigitsValue(s) \in 1678..2261

\* How pd.to_datetime(df[column]) ends for an object column: "ok", or the
\* exception of the first cell it cannot convert.  When the first observed
\* cell is a date text the format is guessed from it and every cell must
\* match it (ValueError otherwise).  Without a guessed format the cells are
\* converted one by one: text that is no date is a ValueError, a boolean a
\* TypeError, a number is taken as nanoseconds.
DatetimeOutcome(c) ==
    LET isdate(v)    == v.k = "str" /\ DateLike(Strip(v.s))
        cell(v, fmt) == IF isdate(v) THEN "ok"
                        ELSE IF v.k = "str" \/ fmt THEN "ValueError"
                        ELSE IF v.k = "bool" THEN "TypeError"
                        ELSE "ok"
        parsed(obs, fmt) ==
            IF \A i \in DOMAIN obs : cell(obs[i], fmt) = "ok" THEN "ok"
            ELSE cell(obs[CHOOSE i \in DOMAIN obs :
                             /\ cell(obs[i], fmt) # "ok"
                             /\ \A j \in 1..(i - 1) : cell(obs[j], fmt) = "ok"], fmt)
        guessed(obs) == parsed(obs, obs # <<>> /\ isdate(obs[1]))
    IN  guessed(Observed(c))

\* The column pd.to_datetime returns: a number is nanoseconds since 1970.
AsDatetime(c) ==
    [c EXCEPT !.dtype = "dt",
              !.vals = [r \in DOMAIN c.vals |->
                  CASE c.vals[r].k = "str" -> Date(DigitsValue(Strip(c.vals[r].s)))
                    [] c.vals[r].k = "num" -> Date(1970)
                    [] OTHER -> c.vals[r]]]

\* pd.to_numeric(df[column]) raises ValueError on text that is no number.
NumericRaises(c) ==
    \E r \in DOMAIN c.vals : c.vals[r].k = "str" /\ ~IsDigits(Strip(c.vals[r].s))

AsNumeric(c) ==
    [c EXCEPT !.dtype = "num",
              !.vals = [r \in DOMAIN c.vals |->
                  IF IsNA(c.vals[r]) THEN NA ELSE Num(ToFloat(c.vals[r]))]]

\* One turn of the loop of lines 121-131.
ConvertTurn(st, name) ==
    LET probed(i, c, dt) ==
            IF c.dtype # "obj" THEN [st |-> st, raised |-> FALSE]
            ELSE IF dt = "ok"
            THEN [st |-> Logged(InPlace(st, SetCol(st.df, i, AsDatetime(c))),
                                InfoCol("Converted column to datetime.", name)),
                  raised |-> FALSE]
            ELSE IF dt = "TypeError" THEN [st |-> st, raised |-> TRUE]
            ELSE IF ~NumericRaises(c)
            THEN [st |-> Logged(InPlace(st, SetCol(st.df, i, AsNumeric(c))),
                                InfoCol("Converted column to numeric.", name)),
                  raised |-> FALSE]
            ELSE [st |-> st, raised |-> FALSE]
        column(i) == probed(i, st.df.cols[i], DatetimeOutcome(st.df.cols[i]))
    IN  column(ColPos(st.df, name))

RECURSIVE ConvertLoop(_, _)
ConvertLoop(st, names) ==
    IF names = <<>> THEN [st |-> st, raised |-> FALSE]
    ELSE LET after(turn) == IF turn.raised THEN turn ELSE ConvertLoop(turn.st, Tail(names))
         IN  after(ConvertTurn(st, Head(names)))

convert_data_types(st) ==
    LET guarded(end) ==
            IF end.raised THEN Logged(end.st, Error("convert_data_types")) ELSE end.st
    IN  guarded(ConvertLoop(st, ColNames(st.df)))

(***************************************************************************)
(* Stage 5: handle_outliers.                                               *)
(***************************************************************************)
OutlierMethods == {"iqr", "zscore"}

\* The numbers of a column's observed cells, in row order.
ObservedNums(c) ==
    LET floats(obs) == [i \in DOMAIN obs |-> ToFloat(obs[i])] IN floats(Observed(c))

\* Series.quantile(qn/qd) of at least one number: linear interpolation
\* between the two order statistics around position (n - 1) * q.
Quantile(rs, qn, qd) ==
    LET between(s, lo, frac) ==
            IF lo + 1 >= Len(s) THEN s[Len(s)]
            ELSE RAdd(s[lo + 1], RMul(frac, RSub(s[lo + 2], s[lo + 1])))
        at(s, num) == between(s, num \div qd, RNorm(num % qd, qd))
    IN  at(SortRats(rs), (Len(rs) - 1) * qn)

\* Sum of squared deviations from the mean: the sum of the squares less the
\* square of the sum over the number of values.
SumSq(rs) ==
    LET less(total) == RDiv(RMul(total, total), RInt(Len(rs)))
    IN  IF rs = <<>> THEN RInt(0)
        ELSE RSub(RSum([i \in DOMAIN rs |-> RMul(rs[i], rs[i])]), less(RSum(rs)))

\* Series.var() (ddof = 1) of at least two numbers.
SampleVar(rs) == RDiv(SumSq(rs), RInt(Len(rs) - 1))

\* Bounds from the quartiles of the values without the greatest of them.
IqrBoundsOfInliers(rs) ==
    LET fences(q1, q3, w) == [lo |-> RSub(q1, w), hi |-> RAdd(q3, w)]
        whiskers(q1, q3)  == fences(q1, q3, RMul(RNorm(3, 2), RSub(q3, q1)))
        inliers(s) == IF Len(s) > 1 THEN SubSeq(s, 1, Len(s) - 1) ELSE s
        bounds(s) == whiskers(Quantile(s, 1, 4), Quantile(s, 3, 4))
    IN  bounds(inliers(SortRats(rs)))

\* Lines 142-146: [Q1 - 1.5 IQR, Q3 + 1.5 IQR].
IqrBounds(rs) ==
    LET fences(q1, q3, w) == [lo |-> RSub(q1, w), hi |-> RAdd(q3, w)]
        whiskers(q1, q3)  == fences(q1, q3, RMul(RNorm(3, 2), RSub(q3, q1)))
    IN  whiskers(Quantile(rs, 1, 4), Quantile(rs, 3, 4))

\* Lines 148-151 give [mean - 3 std, mean + 3 std], kept as the mean and
\* the variance: v lies outside exactly when (v - mean)^2 > 9 var, and which
\* side is the sign of v - mean.
ZBounds(rs) == [mean |-> RMean(rs), var |-> SampleVar(rs)]

ZBeyond(z, dev) == RLt(RInt(0), dev) /\ RLt(RMul(RInt(9), z.var), RMul(dev, dev))

ZBelow(z, v) == ZBeyond(z, RSub(z.mean, v))

ZAbove(z, v) == ZBeyond(z, RSub(v, z.mean))

\* The cells mean - 3 std and mean + 3 std: the mean, tagged with the side.
ZBound(z, side) == [Num(z.mean) EXCEPT !.s = <<side>>]

\* A clip that has an upper bound only.
ClippedAbove(c, method) ==
    LET clip(high, upper) ==
            [n   |-> Cardinality(high),
             col |-> [c EXCEPT !.vals = [r \in DOMAIN c.vals |->
                         IF r \in high THEN upper ELSE c.vals[r]]]]
        rows(beyond(_)) == {r \in DOMAIN c.vals : ~IsNA(c.vals[r]) /\ beyond(Rat(c.vals[r]))}
        iqr(b) == clip(rows(LAMBDA v : RLt(b.hi, v)), Num(b.hi))
        zscore(z) == IF z.var.n = 0 THEN clip({}, ZBound(z, "+"))
                     ELSE clip(rows(LAMBDA v : ZAbove(z, v)), ZBound(z, "+"))
        bounded(rs) ==
            IF Len(rs) < (IF method = "iqr" THEN 1 ELSE 2) THEN clip({}, NA)
            ELSE IF method = "iqr" THEN iqr(IqrBounds(rs))
            ELSE zscore(ZBounds(rs))
    IN  bounded(ObservedNums(c))

\* The column after df[column].clip(lower, upper), and how many of its values
\* lay outside the bounds.  With no observed value (iqr) or fewer than two
\* (zscore) the bounds are NaN and nothing lies outside them.
Clipped(c, method) ==
    LET \* the rows in low take the value lower, those in high the value upper
        clip(low, high, lower, upper) ==
            [n   |-> Cardinality(low \cup high),
             col |-> [c EXCEPT !.vals = [r \in DOMAIN c.vals |->
                         IF r \in low THEN lower
                         ELSE IF r \in high THEN upper
                         ELSE c.vals[r]]]]
        rows(beyond(_)) == {r \in DOMAIN c.vals : ~IsNA(c.vals[r]) /\ beyond(Rat(c.vals[r]))}
        iqr(b) == clip(rows(LAMBDA v : RLt(v, b.lo)), rows(LAMBDA v : RLt(b.hi, v)),
                       Num(b.lo), Num(b.hi))
        \* with no spread every value is the mean, and none lies outside
        zscore(z) == IF z.var.n = 0 THEN clip({}, {}, ZBound(z, "-"), ZBound(z, "+"))
                     ELSE clip(rows(LAMBDA v : ZBelow(z, v)), rows(LAMBDA v : ZAbove(z, v)),
                               ZBound(z, "-"), ZBound(z, "+"))
        bounded(rs) ==
            IF Len(rs) < (IF method = "iqr" THEN 1 ELSE 2) THEN clip({}, {}, NA, NA)
            ELSE IF method = "iqr" THEN iqr(IqrBounds(rs))
            ELSE zscore(ZBounds(rs))
    IN  bounded(ObservedNums(c))

\* An outlier handler that removes the rows outside the bounds.
OutlierTurnDropping(st, name, method) ==
    LET dropped(c, clip) ==
            IF clip.n = 0 THEN [st |-> st, raised |-> FALSE]
            ELSE [st |-> Logged(Rebind(st, TakeRows(st.df,
                                   SelectIdx(c.vals, LAMBDA r : clip.col.vals[r] = c.vals[r], 1))),
                                InfoCol("Clipped outliers", name)),
                  raised |-> FALSE]
        column(c) == dropped(c, Clipped(c, method))
    IN  IF method \notin OutlierMethods THEN [st |-> st, raised |-> TRUE]
        ELSE column(st.df.cols[ColPos(st.df, name)])

\* One turn of the loop of lines 140-157.
OutlierTurn(st, name, method) ==
    LET clipped(i, clip) ==
            IF clip.n = 0 THEN [st |-> st, raised |-> FALSE]
            ELSE [st |-> Logged(InPlace(Logged(st, Entry("warning", "Found outliers", name,
                                                         clip.n, "")),
                                        SetCol(st.df, i, clip.col)),
                                InfoCol("Clipped outliers", name)),
                  raised |-> FALSE]
        column(i) == clipped(i, Clipped(st.df.cols[i], method))
    IN  IF method \notin OutlierMethods THEN [st |-> st, raised |-> TRUE]
        ELSE column(ColPos(st.df, name))

RECURSIVE OutlierLoop(_, _, _)
OutlierLoop(st, names, method) ==
    IF names = <<>> THEN [st |-> st, raised |-> FALSE]
    ELSE LET after(turn) ==
                 IF turn.raised THEN turn ELSE OutlierLoop(turn.st, Tail(names), method)
         IN  after(OutlierTurn(st, Head(names), method))

handle_outliers(st, method) ==
    LET guarded(end) ==
            IF end.raised THEN Logged(end.st, Error("handle_outliers")) ELSE end.st
    IN  guarded(OutlierLoop(st, Pick(ColNames(st.df), SelectDtypes(st.df, {"num"})), method))

(***************************************************************************)
(* Stage 6: encode_categorical_variables.                                  *)
(***************************************************************************)
\* a == b for two Python values: True == 1 and False == 0.
SameValue(a, b) ==
    IF a.k \in {"num", "bool"} /\ b.k \in {"num", "bool"} THEN Rat(a) = Rat(b) ELSE a = b

\* The order categories are sorted in: numbers before text.
CatLt(a, b) ==
    IF a.k = "str" /\ b.k = "str" THEN TextLt(a.s, b.s)
    ELSE IF a.k = "str" THEN FALSE
    ELSE IF b.k = "str" THEN TRUE
    ELSE RLt(Rat(a), Rat(b))

RECURSIVE SortCells(_)
SortCells(cs) ==
    IF cs = <<>> THEN <<>>
    ELSE LET least(m) == <<cs[m]>> \o SortCells(Pick(cs, SelectIdx(cs, LAMBDA j : j # m, 1)))
         IN  least(CHOOSE i \in DOMAIN cs : \A j \in DOMAIN cs : ~CatLt(cs[j], cs[i]))

\* The distinct observed values of a column, each by its first occurrence.
Distinct(c) ==
    LET first(obs) ==
            Pick(obs, SelectIdx(obs, LAMBDA i : \A j \in 1..(i - 1) : ~SameValue(obs[j], obs[i]),
                                1))
    IN  first(Observed(c))

\* The categories of a column: its distinct observed values, sorted.
Categories(c) == SortCells(Distinct(c))

\* str(value).  A number in an object column is the 0 of fillna(0).
ValueText(v) ==
    CASE v.k = "str"  -> v.s
      [] v.k = "bool" -> IF v.n = 1 THEN <<"T", "r", "u", "e">> ELSE <<"F", "a", "l", "s", "e">>
      [] OTHER        -> IntText(v.n)

\* Dummies without drop_first: one boolean column per category.
GetDummiesOfAll(t, i) ==
    LET dummy(c, v) == Col(c.name \o <<"_">> \o ValueText(v), "bool",
                           [r \in DOMAIN c.vals |->
                               Bool(~IsNA(c.vals[r]) /\ SameValue(c.vals[r], v))])
        encoded(c, cats) ==
            [t EXCEPT !.cols = Pick(t.cols, SelectIdx(t.cols, LAMBDA j : j # i, 1))
                               \o [j \in 1..Len(cats) |-> dummy(c, cats[j])]]
    IN  encoded(t.cols[i], Categories(t.cols[i]))

\* pd.get_dummies(df, columns=[column], prefix=column, drop_first=True): the
\* column leaves the table and one boolean column per category but the first
\* is appended on the right.
GetDummies(t, i) ==
    LET dummy(c, v) == Col(c.name \o <<"_">> \o ValueText(v), "bool",
                           [r \in DOMAIN c.vals |->
                               Bool(~IsNA(c.vals[r]) /\ SameValue(c.vals[r], v))])
        encoded(c, cats) ==
            [t EXCEPT !.cols = Pick(t.cols, SelectIdx(t.cols, LAMBDA j : j # i, 1))
                               \o [j \in 1..(IF cats = <<>> THEN 0 ELSE Len(cats) - 1) |->
                                      dummy(c, cats[j + 1])]]
    IN  encoded(t.cols[i], Categories(t.cols[i]))

EncodedSuffix == <<"_", "e", "n", "c", "o", "d", "e", "d">>

\* df[column].astype('category').cat.codes: the position of the value among
\* the categories, from 0, and -1 for a missing value.
LabelCodes(c) ==
    LET code(cats, v) == CHOOSE j \in DOMAIN cats : SameValue(cats[j], v)
        coded(cats) ==
            Col(c.name \o EncodedSuffix, "num",
                [r \in DOMAIN c.vals |->
                    IF IsNA(c.vals[r]) THEN Num(RInt(-1))
                    ELSE Num(RInt(code(cats, c.vals[r]) - 1))])
    IN  coded(Categories(c))

\* df[name] = column: in place of the column of that name, or on the right.
AssignCol(t, c) ==
    IF HasCol(t, c.name) THEN SetCol(t, ColPos(t, c.name), c)
    ELSE [t EXCEPT !.cols = Append(t.cols, c)]

OneHot(st, name) ==
    Logged(Rebind(st, GetDummies(st.df, ColPos(st.df, name))), InfoCol("One-hot encoded column", name))

Label(st, name) ==
    Logged(InPlace(st, AssignCol(st.df, LabelCodes(st.df.cols[ColPos(st.df, name)]))),
           InfoCol("Label encoded column", name))

AutoCardinality == 10

\* One turn of the loop of lines 166-179.
EncodeTurn(st, name, method) ==
    LET onehot == \/ method = "onehot"
                  \/ /\ method = "auto"
                     /\ Len(Distinct(st.df.cols[ColPos(st.df, name)])) < AutoCardinality
    IN  IF method \notin {"auto", "onehot", "label"} THEN st
        ELSE IF onehot THEN OneHot(st, name)
        ELSE Label(st, name)

RECURSIVE EncodeLoop(_, _, _)
EncodeLoop(st, names, method) ==
    IF names = <<>> THEN st
    ELSE EncodeLoop(EncodeTurn(st, Head(names), method), Tail(names), method)

encode_categorical_variables(st, method) ==
    EncodeLoop(st, Pick(ColNames(st.df), SelectDtypes(st.df, {"obj"})), method)

(***************************************************************************)
(* Stage 7: scale_features.                                                *)
(***************************************************************************)
ScalingMethods == {"standard", "robust"}

\* StandardScaler: (x - mean) / std with the population variance; a variance
\* of 0 scales by 1.  The result is x - mean in units of the column's std.
StandardScaled(c) ==
    LET scaled(m, var) ==
            [c EXCEPT !.vals = [r \in DOMAIN c.vals |->
                           IF IsNA(c.vals[r]) THEN NA ELSE Num(RSub(Rat(c.vals[r]), m))],
                      !.u2 = IF var.n = 0 THEN One ELSE var]
        fitted(rs) == IF rs = <<>> THEN c
                      ELSE scaled(RMean(rs), RDiv(SumSq(rs), RInt(Len(rs))))
    IN  fitted(ObservedNums(c))

\* RobustScaler: (x - median) / IQR; an IQR of 0 scales by 1.
RobustScaled(c) ==
    LET scaled(med, iqr) ==
            [c EXCEPT !.vals = [r \in DOMAIN c.vals |->
                           IF IsNA(c.vals[r]) THEN NA
                           ELSE Num(RDiv(RSub(Rat(c.vals[r]), med),
                                         IF iqr.n = 0 THEN One ELSE iqr))]]
        fitted(rs) == IF rs = <<>> THEN c
                      ELSE scaled(RMedian(rs), RSub(Quantile(rs, 3, 4), Quantile(rs, 1, 4)))
    IN  fitted(ObservedNums(c))

\* Line 192 raises for an unknown method (scaler is unbound) and when
\* scikit-learn is given no column or no row.
ScaleRaises(t, method) ==
    \/ method \notin ScalingMethods
    \/ SelectDtypes(t, {"num"}) = <<>>
    \/ NRows(t) = 0

ScaledTable(t, method) ==
    [t EXCEPT !.cols = [i \in 1..NCols(t) |->
        IF t.cols[i].dtype # "num" THEN t.cols[i]
        ELSE IF method = "standard" THEN StandardScaled(t.cols[i])
        ELSE RobustScaled(t.cols[i])]]

scale_features(st, method) ==
    IF ScaleRaises(st.df, method) THEN Logged(st, Error("scale_features"))
    ELSE Logged(InPlace(st, ScaledTable(st.df, method)),
                Entry("info", "Scaled numeric columns", <<>>,
                      Len(SelectDtypes(st.df, {"num"})), method))

(***************************************************************************)
(* Stage 8: select_features.                                               *)
(***************************************************************************)
\* Sum of the products of the deviations of xs and ys from their means: the
\* sum of the products less the product of the sums over the number of
\* values.
CoSum(xs, ys) ==
    IF xs = <<>> THEN RInt(0)
    ELSE RSub(RSum([i \in DOMAIN xs |-> RMul(xs[i], ys[i])]),
              RDiv(RMul(RSum(xs), RSum(ys)), RInt(Len(xs))))

\* Whether a column converts to an array of floats: numbers and booleans do,
\* an object column does when each of its values does, timestamps do not.
ColFloatOk(c) ==
    \/ c.dtype \in {"num", "bool"}
    \/ c.dtype = "obj" /\ \A r \in DOMAIN c.vals : IsNA(c.vals[r]) \/ FloatOk(c.vals[r])

\* A column VarianceThreshold(threshold=0) does not support: its observed
\* values are all equal, or it has none.
ZeroVariance(c) == Cardinality(Range(ObservedNums(c))) <= 1

\* constant_filter.fit(df) raises: a column that is no array of floats, no
\* row, no column, or no column of positive variance.
VarianceFitRaises(t) ==
    \/ \E i \in 1..NCols(t) : ~ColFloatOk(t.cols[i])
    \/ NRows(t) = 0
    \/ \A i \in 1..NCols(t) : ZeroVariance(t.cols[i])

\* Lines 203-209.
ConstantFilter(st) ==
    LET filtered(constant, dropped) ==
            IF constant = <<>> THEN dropped
            ELSE Logged(dropped, Entry("info", "Removed constant columns.", <<>>,
                                       Len(constant), ""))
    IN  filtered(SelectIdx(st.df.cols, LAMBDA i : ZeroVariance(st.df.cols[i]), 1),
                 Rebind(st, TakeCols(st.df, SelectIdx(st.df.cols,
                                                      LAMBDA i : ~ZeroVariance(st.df.cols[i]),
                                                      1))))

\* |corr(x, y)| > 0.95 over the rows where both columns hold a value: with
\* positive variances, 400 Sxy^2 > 361 Sxx Syy.  A correlation that is not
\* defined (fewer than two such rows, a constant column) exceeds nothing.
HighlyCorrelated(x, y) ==
    LET exceeds(sxx, syy, sxy) ==
            /\ sxx.n > 0
            /\ syy.n > 0
            /\ RLt(RMul(RInt(361), RMul(sxx, syy)), RMul(RInt(400), RMul(sxy, sxy)))
        paired(xs, ys) == Len(xs) >= 2 /\ exceeds(SumSq(xs), SumSq(ys), CoSum(xs, ys))
        over(rows) == paired([i \in DOMAIN rows |-> ToFloat(x.vals[rows[i]])],
                             [i \in DOMAIN rows |-> ToFloat(y.vals[rows[i]])])
    IN  over(SelectIdx(x.vals, LAMBDA r : ~IsNA(x.vals[r]) /\ ~IsNA(y.vals[r]), 1))

\* Lines 212-217: a column goes when a column on its left correlates with it.
CorrelationFilter(st) ==
    LET filtered(gone, dropped) ==
            IF gone = <<>> THEN dropped
            ELSE Logged(dropped, Entry("info", "Removed highly correlated columns.", <<>>,
                                       Len(gone), ""))
        pruned(to_drop) ==
            filtered(SelectIdx(st.df.cols, LAMBDA j : j \in to_drop, 1),
                     Rebind(st, TakeCols(st.df, SelectIdx(st.df.cols,
                                                          LAMBDA j : j \notin to_drop, 1))))
    IN  pruned({j \in 1..NCols(st.df) :
                   \E i \in 1..(j - 1) : HighlyCorrelated(st.df.cols[i], st.df.cols[j])})

\* df.corr() raises on a column that is no array of floats.
CorrRaises(t) == \E i \in 1..NCols(t) : ~ColFloatOk(t.cols[i])

select_features(st, method) ==
    LET failed(s) == Logged(s, Error("select_features"))
        correlated(filtered) ==
            IF CorrRaises(filtered.df) THEN failed(filtered) ELSE CorrelationFilter(filtered)
    IN  IF method = "variance" /\ VarianceFitRaises(st.df) THEN failed(st)
        ELSE correlated(IF method = "variance" THEN ConstantFilter(st) ELSE st)

(***************************************************************************)
(* Stage 9: reduce_dimensions.                                             *)
(***************************************************************************)
\* PCA(n_components=p).fit_transform raises: p is no fraction strictly
\* between 0 and 1 (the caller passes a float), a missing value, or no row.
PcaRaises(t, nums, p) ==
    \/ ~(RLt(RInt(0), p) /\ RLt(p, RInt(1)))
    \/ NRows(t) = 0
    \/ \E i \in Range(nums) : \E r \in DOMAIN t.cols[i].vals : IsNA(t.cols[i].vals[r])

\* The number of components kept for two columns x, y: the first alone when
\* its share l1 / (l1 + l2) of the variance exceeds p, else both.  With T the
\* trace and D the determinant of the covariance matrix,
\* l1 = (T + sqrt(T^2 - 4D)) / 2, so for p >= 1/2 the share exceeds p exactly
\* when T^2 - 4D > (2p - 1)^2 T^2.  With no variance at all the shares are
\* NaN and one component is kept.
Components2(x, y, p) ==
    LET kept(tr2, w, gap) ==
            IF tr2.n = 0 THEN 1
            ELSE IF RLt(w, RInt(0)) THEN 1
            ELSE IF RLt(RMul(RMul(w, w), tr2), gap) THEN 1
            ELSE 2
        spectrum(tr, det) ==
            kept(RMul(tr, tr), RSub(RMul(RInt(2), p), RInt(1)),
                 RSub(RMul(tr, tr), RMul(RInt(4), det)))
        covariance(sxx, syy, sxy) ==
            spectrum(RAdd(sxx, syy),
                     RSub(RMul(sxx, syy), RDiv(RMul(sxy, sxy), RMul(x.u2, y.u2))))
        fitted(xs, ys) ==
            covariance(RDiv(SumSq(xs), x.u2), RDiv(SumSq(ys), y.u2), CoSum(xs, ys))
    IN  fitted(ObservedNums(x), ObservedNums(y))

\* pca_result.shape[1].  The tables of this model hold at most two numeric
\* columns when they reach this stage.
Components(t, nums, p) == Components2(t.cols[nums[1]], t.cols[nums[2]], p)

\* A principal component score: a number, its value not modelled.
Score == [Num(RInt(0)) EXCEPT !.s = <<"P", "C">>]

\* A concatenation that joins the row labels of the two tables and leaves
\* their columns the length they had.
ConcatColumnsUnaligned(left, right) ==
    [idx  |-> left.idx \o Pick(right.idx,
                  SelectIdx(right.idx, LAMBDA r : right.idx[r] \notin Range(left.idx), 1)),
     cols |-> left.cols \o right.cols]

\* pd.concat([left, right], axis=1), right carrying the labels 0..n-1 of a
\* new DataFrame: the rows are the labels of left followed by those of right
\* that left does not have, and a column holds a missing value where its
\* own table has no such label.
ConcatColumns(left, right) ==
    LET at(t, c, lbl) == IF lbl \in Range(t.idx)
                         THEN c.vals[CHOOSE r \in DOMAIN t.idx : t.idx[r] = lbl]
                         ELSE NA
        reindexed(c, vals) ==
            [c EXCEPT !.vals = vals,
                      !.dtype = IF c.dtype = "bool" /\ \E r \in DOMAIN vals : IsNA(vals[r])
                                THEN "obj" ELSE c.dtype]
        widen(t, idx) ==
            [i \in 1..NCols(t) |->
                reindexed(t.cols[i], [r \in DOMAIN idx |-> at(t, t.cols[i], idx[r])])]
        joined(idx) == [idx |-> idx, cols |-> widen(left, idx) \o widen(right, idx)]
    IN  joined(left.idx \o Pick(right.idx,
                   SelectIdx(right.idx, LAMBDA r : right.idx[r] \notin Range(left.idx), 1)))

\* Lines 228-231.
PcaTable(t, k) ==
    ConcatColumns(TakeCols(t, SelectIdx(t.cols, LAMBDA i : t.cols[i].dtype # "num", 1)),
                  [idx  |-> [r \in 1..NRows(t) |-> r - 1],
                   cols |-> [j \in 1..k |->
                                Col(<<"P", "C", "_">> \o IntText(j), "num",
                                    [r \in 1..NRows(t) |-> Score])]])

reduce_dimensions(st, p) ==
    LET reduced(nums, k) ==
            Logged(Rebind(st, PcaTable(st.df, k)),
                   Entry("info", "Reduced dimensions", IntText(k), Len(nums), ""))
        numeric(nums) ==
            IF Len(nums) <= 1 THEN st
            ELSE IF PcaRaises(st.df, nums, p) THEN Logged(st, Error("reduce_dimensions"))
            ELSE reduced(nums, Components(st.df, nums, p))
    IN  numeric(SelectDtypes(st.df, {"num"}))

(***************************************************************************)
(* The configuration: user_choices.                                        *)
(*                                                                         *)
(* prepare_data reads a key with user_choices.get(key, default), the flag  *)
(* of a stage when it reaches the stage and the strategy only when the     *)
(* flag is set.  Each key is read at most once in a run, so the model      *)
(* draws the value of a key when the code reads it and keeps what was      *)
(* read in cfg: flag[s] is "on" or "off", method[s] the strategy, and      *)
(* "unread" a key the code has not read.                                   *)
(***************************************************************************)
\* prepare_data coercing the types before it fills the missing values.
StagesCoercingFirst ==
    <<"Cleaning", "Duplicates", "Types", "Missing", "Outliers", "Encoding",
      "Scaling", "Selection", "Reduction">>

\* The stages in the order of the statements of lines 21-52.
Stages == <<"Cleaning", "Duplicates", "Missing", "Types", "Outliers", "Encoding",
            "Scaling", "Selection", "Reduction">>

Optional == {"Duplicates", "Missing", "Outliers", "Encoding", "Scaling", "Selection",
             "Reduction"}

StageNo(s) == CHOOSE i \in DOMAIN Stages : Stages[i] = s

Absent == "absent"

\* user_choices.get(key, default)
Get(raw, default) == IF raw = Absent THEN default ELSE raw

\* The values a caller can give the flag of a stage.
RawFlags == {"True", "False", Absent}

\* The default of the strategy of a stage (lines 25-52).
DefaultMethod(s) ==
    CASE s = "Duplicates" -> "first"
      [] s = "Missing"    -> "mean"
      [] s = "Outliers"   -> "iqr"
      [] s = "Encoding"   -> "auto"
      [] s = "Scaling"    -> "standard"
      [] s = "Selection"  -> "variance"
      [] s = "Reduction"  -> "0.95"

\* The values a caller can give the strategy of a stage: those the UI offers
\* (user_interface.py lines 161-173), and "other", a name no stage knows.
RawMethods(s) ==
    CASE s = "Duplicates" -> {"first", "last", "all", "other", Absent}
      [] s = "Missing"    -> {"drop", "mean", "median", "mode", "most_frequent", "constant",
                              Absent}
      [] s = "Outliers"   -> {"iqr", "zscore", "other", Absent}
      [] s = "Encoding"   -> {"auto", "onehot", "label", "other", Absent}
      [] s = "Scaling"    -> {"standard", "robust", "other", Absent}
      [] s = "Selection"  -> {"variance", "correlation", Absent}
      [] s = "Reduction"  -> {"0.5", "0.95", "1.0", Absent}

\* The float the n_components slider gives.
Fraction(m) ==
    CASE m = "0.5"  -> RNorm(1, 2)
      [] m = "0.95" -> RNorm(19, 20)
      [] m = "1.0"  -> RInt(1)

Unread == [flag |-> [s \in Optional |-> "unread"], method |-> [s \in Optional |-> "unread"]]

Enabled(c) == {s \in Optional : c.flag[s] = "on"}

(***************************************************************************)
(* prepare_data, stage by stage.                                           *)
(***************************************************************************)
\* The call prepare_data makes for an enabled stage.
Invoke(s, st, method) ==
    CASE s = "Cleaning"   -> basic_cleaning(st)
      [] s = "Duplicates" -> handle_duplicates(st, method)
      [] s = "Missing"    -> handle_missing_values(st, method)
      [] s = "Types"      -> convert_data_types(st)
      [] s = "Outliers"   -> handle_outliers(st, method)
      [] s = "Encoding"   -> encode_categorical_variables(st, method)
      [] s = "Scaling"    -> scale_features(st, method)
      [] s = "Selection"  -> select_features(st, method)
      [] s = "Reduction"  -> reduce_dimensions(st, Fraction(method))

\* Whether prepare_data calls stage s under the configuration c: lines 21 and
\* 32 are unconditional, the others are guarded by the flag.
Runs(s, c) == s \notin Optional \/ c.flag[s] = "on"

\* prepare_data calling every stage whatever its flag, with the default
\* strategy.
StagePassUnguarded(s, st, c) ==
    Invoke(s, st, IF s \in Optional THEN DefaultMethod(s) ELSE "")

\* One statement of lines 21-52: the frame after stage s under c.
StagePass(s, st, c) ==
    IF Runs(s, c) THEN Invoke(s, st, IF s \in Optional THEN c.method[s] ELSE "") ELSE st

RECURSIVE PassFrom(_, _, _)
\* Lines 21-52 from stage number i on.
PassFrom(i, st, c) ==
    IF i > Len(Stages) THEN st ELSE PassFrom(i + 1, StagePass(Stages[i], st, c), c)

Started(t) ==
    [df |-> t, orig |-> t, aliased |-> TRUE,
     log |-> <<Info("Starting data preparation...")>>]

\* Lines 18-55 for a configuration that is a mapping.
Prepared(t, c) ==
    Logged(PassFrom(1, Started(t), c), Info("Data preparation completed successfully."))

\* prepare_data with a handler that logs nothing.
EscapedUnlogged(st) == st

\* Lines 56-58 and handle_data_processing_error: the two error diagnostics
\* of an exception that reached prepare_data's own handler.
Escaped(st) ==
    Logged(Logged(st, Error("prepare_data")),
           Entry("error", "An error occurred during data processing", <<>>, 0, ""))

\* Lines 18-24 and 56-58 for a configuration that is no mapping:
\* user_choices.get raises after basic_cleaning has run.
Refused(t) == Escaped(basic_cleaning(Started(t)))

\* Line 58 raises what handle_data_processing_error returns, a str: Python
\* raises "TypeError: exceptions must derive from BaseException" instead.
Raised == "TypeError"

\* user_interface.py lines 184-186: the caller's handler logs the exception.
Caught(st) == Logged(st, Entry("error", "Data processing error", <<>>, 0, Raised))

(***************************************************************************)
(* The uploaded tables.                                                    *)
(*                                                                         *)
(* read_file gives a DataFrame with the labels 0..n-1, columns of numbers  *)
(* and object columns of text or of booleans (a CSV column of True/False   *)
(* with an empty cell), missing values in both.  The tables of the model   *)
(* are the selections of at most MaxRows rows of the sheets below.         *)
(***************************************************************************)
MaxRows == 4
MaxEnabled == 2
MaxRuns == 3

N(i) == Num(RInt(i))
Text(s) == Str(s)

Sheets ==
    { \* a number column and a text column: a repeated row, missing values,
      \* names and text the Cleaner changes
      [names  |-> << <<" ", "A">>, <<"b", "!">> >>,
       dtypes |-> <<"num", "obj">>,
       rows   |-> << <<N(1), Text(<<" ", "x">>)>>,
                     <<N(1), Text(<<" ", "x">>)>>,
                     <<NA,   Text(<<"y">>)>>,
                     <<N(5), NA>> >>],
      \* text that is numbers, and booleans with a missing value
      [names  |-> << <<"n">>, <<"a", " ", "b">> >>,
       dtypes |-> <<"obj", "obj">>,
       rows   |-> << <<Text(<<"1">>), Bool(TRUE)>>,
                     <<Text(<<"2">>), NA>>,
                     <<NA,            Bool(FALSE)>>,
                     <<Text(<<"1">>), Bool(TRUE)>> >>],
      \* two number columns: a repeated row, values far from the others
      [names  |-> << <<"x">>, <<"y">> >>,
       dtypes |-> <<"num", "num">>,
       rows   |-> << <<N(1), N(2)>>,
                     <<N(1), N(2)>>,
                     <<N(1), N(10)>>,
                     <<N(9), N(2)>> >>],
      \* text that is dates, and a column with no value at all
      [names  |-> << <<"d">>, <<"e">> >>,
       dtypes |-> <<"obj", "obj">>,
       rows   |-> << <<Text(<<"2", "0", "2", "0">>), NA>>,
                     <<Text(<<"2", "0", "2", "1">>), NA>>,
                     <<NA, NA>> >>] }

\* The table read from the rows at the positions pos of a sheet.
SheetTable(sh, pos) ==
    [idx  |-> [r \in 1..Len(pos) |-> r - 1],
     cols |-> [i \in DOMAIN sh.names |->
                  Col(sh.names[i], sh.dtypes[i], [r \in 1..Len(pos) |-> sh.rows[pos[r]][i]])]]

\* The increasing sequences of at most MaxRows positions of 1..n.
Selections(n) ==
    {pos \in UNION {[1..k -> 1..n] : k \in 1..MaxRows} :
        \A i \in 1..(Len(pos) - 1) : pos[i] < pos[i + 1]}

TableSpace ==
    UNION {{SheetTable(sh, pos) : pos \in Selections(Len(sh.rows))} : sh \in Sheets}

(***************************************************************************)
(* The state.                                                              *)
(*                                                                         *)
(* original_data, processed_data: the two fields of the UI.                *)
(*   processed_data is [set, same, t]: set = FALSE is None; same = TRUE    *)
(*   says that it is the very object original_data is, t its table         *)
(*   otherwise.                                                            *)
(* uploaded: the table as read_file returned it (never assigned again).    *)
(* pc: where the current run of prepare_data stands: "Idle" before the     *)
(*   first run, a stage about to be reached, "Completing" (line 54),       *)
(*   "Done" (returned) or "Failed" (raised).                               *)
(* df, aliased, log: the frame of the run (see InPlace, Rebind); log holds *)
(*   the diagnostics of the current run.                                   *)
(* mapping: whether the user_choices of the run is a mapping.              *)
(* cfg: what the runs have read of user_choices.                           *)
(* ran: the stages the current run has invoked, in order.                  *)
(* runs: the number of runs started.                                       *)
(* raised: the exception the last run let reach the caller, or "none".     *)
(***************************************************************************)
VARIABLES original_data, processed_data, uploaded, pc, df, aliased, log, mapping, cfg,
          ran, runs, raised

vars == <<original_data, processed_data, uploaded, pc, df, aliased, log, mapping, cfg,
          ran, runs, raised>>

None == [set |-> FALSE, same |-> FALSE, t |-> [idx |-> <<>>, cols |-> <<>>]]

\* The table processed_data holds.
ProcessedTable == IF processed_data.same THEN original_data ELSE processed_data.t

Frame == [df |-> df, orig |-> original_data, aliased |-> aliased, log |-> log]

\* The frame st becomes the state of the run.
SetFrame(st) ==
    /\ df' = st.df
    /\ original_data' = st.orig
    /\ aliased' = st.aliased
    /\ log' = st.log

\* self.processed_data = <the table prepare_data returned>
Returned(st) ==
    IF st.aliased THEN [set |-> TRUE, same |-> TRUE, t |-> None.t]
    ELSE [set |-> TRUE, same |-> FALSE, t |-> st.df]

NextStage(s) == IF StageNo(s) = Len(Stages) THEN "Completing" ELSE Stages[StageNo(s) + 1]

Init ==
    /\ original_data \in TableSpace
    /\ uploaded = original_data
    /\ processed_data = None
    /\ pc = "Idle"
    /\ df = None.t
    /\ aliased = FALSE
    /\ log = <<>>
    /\ mapping = TRUE
    /\ cfg = Unread
    /\ ran = <<>>
    /\ runs = 0
    /\ raised = "none"

\* The first click on "Clean and Transform Data": prepare_data is entered
\* with the caller's table (line 179) and logs its start (line 18).
Start ==
    /\ pc = "Idle"
    /\ \E m \in BOOLEAN : mapping' = m
    /\ SetFrame(Started(original_data))
    /\ pc' = "Cleaning"
    /\ ran' = <<>>
    /\ runs' = 1
    /\ UNCHANGED <<processed_data, uploaded, cfg, raised>>

\* Lines 21 and 32: a stage that always runs.
Mandatory(s) ==
    /\ pc = s
    /\ s \notin Optional
    /\ SetFrame(Invoke(s, Frame, ""))
    /\ ran' = Append(ran, s)
    /\ pc' = NextStage(s)
    /\ UNCHANGED <<processed_data, uploaded, mapping, cfg, runs, raised>>

\* Lines 24-52: the flag of stage s is read and found not set.
Skip(s) ==
    /\ pc = s
    /\ s \in Optional
    /\ mapping
    /\ \E raw \in RawFlags :
          /\ Get(raw, "False") # "True"
          /\ cfg' = [cfg EXCEPT !.flag[s] = "off"]
    /\ SetFrame(StagePass(s, Frame, cfg'))
    /\ pc' = NextStage(s)
    /\ UNCHANGED <<processed_data, uploaded, mapping, ran, runs, raised>>

\* Lines 24-52: the flag of stage s is read and found set, the strategy is
\* read and the stage is called.
Apply(s) ==
    /\ pc = s
    /\ s \in Optional
    /\ mapping
    /\ Cardinality(Enabled(cfg)) < MaxEnabled
    /\ \E raw \in RawFlags, rawMethod \in RawMethods(s) :
          /\ Get(raw, "False") = "True"
          /\ cfg' = [cfg EXCEPT !.flag[s] = "on",
                                !.method[s] = Get(rawMethod, DefaultMethod(s))]
    /\ SetFrame(StagePass(s, Frame, cfg'))
    /\ ran' = Append(ran, s)
    /\ pc' = NextStage(s)
    /\ UNCHANGED <<processed_data, uploaded, mapping, runs, raised>>

\* Lines 54-55 and user_interface.py line 179: the run logs its completion
\* and returns, and the caller keeps the table.
Complete ==
    /\ pc = "Completing"
    /\ log' = Append(log, Info("Data preparation completed successfully."))
    /\ processed_data' = Returned(Frame)
    /\ pc' = "Done"
    /\ raised' = "none"
    /\ UNCHANGED <<original_data, uploaded, df, aliased, mapping, cfg, ran, runs>>

\* Line 24 with user_choices no mapping: .get raises outside every stage's
\* guard; lines 56-58 log and raise, and the caller logs (line 186).
Fail ==
    /\ pc = "Duplicates"
    /\ ~mapping
    /\ log' = Caught(Escaped(Frame)).log
    /\ pc' = "Failed"
    /\ raised' = Raised
    /\ UNCHANGED <<original_data, processed_data, uploaded, df, aliased, mapping, cfg, ran,
                   runs>>

\* A later call with the same choices by a caller that still holds the
\* table: the whole of prepare_data on the caller's table, and the
\* assignment of line 179.
RunAgain ==
    /\ pc = "Done"
    /\ runs < MaxRuns
    /\ LET returned(st) == SetFrame(st) /\ processed_data' = Returned(st)
       IN  returned(Prepared(original_data, cfg))
    /\ ran' = SelectSeq(Stages, LAMBDA s : Runs(s, cfg))
    /\ runs' = runs + 1
    /\ mapping' = TRUE
    /\ raised' = "none"
    /\ UNCHANGED <<uploaded, pc, cfg>>

\* A later call whose user_choices is no mapping.
FailAgain ==
    /\ pc \in {"Done", "Failed"}
    /\ runs < MaxRuns
    /\ SetFrame(Caught(Refused(original_data)))
    /\ ran' = <<"Cleaning">>
    /\ runs' = runs + 1
    /\ mapping' = FALSE
    /\ pc' = "Failed"
    /\ raised' = Raised
    /\ UNCHANGED <<processed_data, uploaded, cfg>>

Next ==
    \/ Start
    \/ \E s \in Range(Stages) : Mandatory(s)
    \/ \E s \in Optional : Skip(s)
    \/ \E s \in Optional : Apply(s)
    \/ Complete
    \/ Fail
    \/ RunAgain
    \/ FailAgain

Spec == Init /\ [][Next]_vars

(***************************************************************************)
(* A stage called on its own.                                              *)
(*                                                                         *)
(* The stage functions are public methods of DataProcessor: StageSpec is   *)
(* one call of one of them, with a strategy, on a table as read_file gives *)
(* it, and for the Cleaner a second call on the table the first returned.  *)
(* The state is that of a run: original_data the table passed, df the      *)
(* table the stage works on and returns, log its diagnostics, ran the      *)
(* stages called, cfg the strategy passed; pc is "Given" before the call,  *)
(* "Called" after it and "CalledAgain" after the Cleaner's second call.    *)
(***************************************************************************)
MaxStageRows == 5

AllStages == {"Cleaning", "Duplicates", "Missing", "Types", "Outliers", "Encoding",
              "Scaling", "Selection", "Reduction"}

\* A sheet and the stages that are called on its tables.
For(sh, stages) ==
    [names |-> sh.names, dtypes |-> sh.dtypes, rows |-> sh.rows, stages |-> stages]

StageSheets ==
    {For(sh, AllStages) : sh \in Sheets}
    \cup
    { \* two names that differ in case only
      [names  |-> << <<"A">>, <<"a">> >>,
       dtypes |-> <<"num", "num">>,
       rows   |-> << <<N(1), N(2)>>, <<N(3), N(4)>> >>,
       stages |-> {"Cleaning"}],
      \* a name with a tab behind a character the Cleaner removes
      [names  |-> << <<"!", "\t", "a">>, <<"b">> >>,
       dtypes |-> <<"num", "obj">>,
       rows   |-> << <<N(1), Text(<<" ", "x">>)>>, <<N(2), Text(<<"y", " ">>)>> >>,
       stages |-> {"Cleaning"}],
      \* rows that occur twice, one of them with a missing value
      [names  |-> << <<"k">>, <<"v">> >>,
       dtypes |-> <<"num", "obj">>,
       rows   |-> << <<N(1), NA>>,
                     <<N(2), Text(<<"x">>)>>,
                     <<N(1), NA>>,
                     <<N(3), Text(<<"y">>)>>,
                     <<N(2), Text(<<"x">>)>> >>,
       stages |-> {"Duplicates", "Missing"}],
      \* one value far above four others
      [names  |-> << <<"v">> >>,
       dtypes |-> <<"num">>,
       rows   |-> << <<N(1)>>, <<N(2)>>, <<N(3)>>, <<N(4)>>, <<N(100)>> >>,
       stages |-> {"Outliers"}],
      \* a text column of three distinct values and a missing one
      [names  |-> << <<"c">>, <<"w">> >>,
       dtypes |-> <<"obj", "num">>,
       rows   |-> << <<Text(<<"b">>), N(1)>>,
                     <<Text(<<"a">>), N(2)>>,
                     <<Text(<<"c">>), N(3)>>,
                     <<Text(<<"a">>), N(4)>>,
                     <<NA,            N(5)>> >>,
       stages |-> {"Encoding"}],
      \* a text column between two number columns, a missing value in each
      [names  |-> << <<"p">>, <<"q">>, <<"r">> >>,
       dtypes |-> <<"num", "obj", "num">>,
       rows   |-> << <<N(1), Text(<<"x">>), NA>>,
                     <<NA,   Text(<<"y">>), N(4)>>,
                     <<N(3), NA,            N(6)>>,
                     <<NA,   Text(<<"b">>), NA>> >>,
       stages |-> {"Missing"}],
      \* text mixed with a boolean, booleans, and text that is numbers
      [names  |-> << <<"m">>, <<"f">>, <<"g">> >>,
       dtypes |-> <<"obj", "obj", "obj">>,
       rows   |-> << <<Text(<<"x">>), Bool(TRUE),  Text(<<"1">>)>>,
                     <<Bool(TRUE),    Bool(FALSE), Text(<<"2">>)>>,
                     <<Text(<<"y">>), NA,          NA>> >>,
       stages |-> {"Types"}],
      \* eleven rows: one value far above and one far below ten others
      [names  |-> << <<"h", "i">>, <<"l", "o">>, <<"t">> >>,
       dtypes |-> <<"num", "num", "obj">>,
       rows   |-> << <<N(100), N(0), Text(<<"x">>)>>,
                     <<N(0), N(0 - 100), Text(<<"y">>)>> >>
                  \o [r \in 1..9 |-> <<N(0), N(0), Text(<<"x">>)>>],
       stages |-> {"Outliers"}],
      \* number columns: b follows a, c follows b but not a; k is constant
      [names  |-> << <<"a">>, <<"k">>, <<"b">>, <<"c">> >>,
       dtypes |-> <<"num", "num", "num", "num">>,
       rows   |-> << <<N(1), N(7), N(0), N(0)>>,
                     <<N(2), N(7), N(1), N(0)>>,
                     <<N(3), N(7), N(2), N(1)>>,
                     <<N(4), N(7), N(4), N(2)>> >>,
       stages |-> {"Selection"}],
      \* the same with a text column
      [names  |-> << <<"a">>, <<"k">>, <<"b">>, <<"c">>, <<"t">> >>,
       dtypes |-> <<"num", "num", "num", "num", "obj">>,
       rows   |-> << <<N(1), N(7), N(0), N(0), Text(<<"x">>)>>,
                     <<N(2), N(7), N(1), N(0), Text(<<"y">>)>>,
                     <<N(3), N(7), N(2), N(1), Text(<<"x">>)>>,
                     <<N(4), N(7), N(4), N(2), Text(<<"y">>)>> >>,
       stages |-> {"Selection"}] }

\* The increasing sequences of at most MaxStageRows positions of 1..n.
StageSelections(n) ==
    LET ascending(S) ==
            [k \in 1..Cardinality(S) |->
                CHOOSE i \in S : Cardinality({j \in S : j <= i}) = k]
    IN  {ascending(S) : S \in {T \in SUBSET (1..n) :
                                  T # {} /\ Cardinality(T) <= MaxStageRows}}

\* The tables of at most MaxStageRows rows of a sheet, and the whole sheet.
StageInputs ==
    UNION {{SheetTable(sh, pos) : pos \in StageSelections(Len(sh.rows))
                                         \cup {[r \in 1..Len(sh.rows) |-> r]}} :
           sh \in StageSheets}

\* The stages called on the table t.
StagesFor(t) == UNION {sh.stages : sh \in {x \in StageSheets : x.names = ColNames(t)}}

\* The strategies a stage is called with.
StageMethods(s) == IF s \in Optional THEN RawMethods(s) \ {Absent} ELSE {""}

StageInit ==
    /\ original_data \in StageInputs
    /\ uploaded = original_data
    /\ processed_data = None
    /\ pc = "Given"
    /\ df = original_data
    /\ aliased = TRUE
    /\ log = <<>>
    /\ mapping = TRUE
    /\ cfg = Unread
    /\ ran = <<>>
    /\ runs = 0
    /\ raised = "none"

\* self.<stage function>(df, method)
Call(s) ==
    /\ pc = "Given"
    /\ s \in StagesFor(uploaded)
    /\ \E method \in StageMethods(s) :
          /\ cfg' = IF s \in Optional
                    THEN [cfg EXCEPT !.flag[s] = "on", !.method[s] = method]
                    ELSE cfg
          /\ SetFrame(Invoke(s, Frame, method))
    /\ ran' = <<s>>
    /\ pc' = "Called"
    /\ UNCHANGED <<processed_data, uploaded, mapping, runs, raised>>

\* self.basic_cleaning(<the table basic_cleaning returned>)
CleanAgain ==
    /\ pc = "Called"
    /\ ran = <<"Cleaning">>
    /\ SetFrame(basic_cleaning(Frame))
    /\ ran' = <<"Cleaning", "Cleaning">>
    /\ pc' = "CalledAgain"
    /\ UNCHANGED <<processed_data, uploaded, mapping, cfg, runs, raised>>

StageNext ==
    \/ \E s \in AllStages : Call(s)
    \/ CleanAgain

StageSpec == StageInit /\ [][StageNext]_vars

(***************************************************************************)
(* The claims of the specification, C1 to C10.                             *)
(***************************************************************************)
\* The stage order the specification fixes.
FixedOrder == <<"Cleaning", "Duplicates", "Missing", "Types", "Outliers", "Encoding",
                "Scaling", "Selection", "Reduction">>

Place(s) == CHOOSE i \in DOMAIN FixedOrder : FixedOrder[i] = s

\* A step of the first run that reads the flag of the stage it stands at
\* and finds it set (Applying) or not set (Skipping).
Applying(s) == pc = s /\ mapping /\ cfg'.flag[s] = "on"

Skipping(s) == pc = s /\ mapping /\ cfg'.flag[s] = "off"

\* The function that logs "Error in <function>" for a stage.
StageFunction(s) ==
    CASE s = "Cleaning"   -> "basic_cleaning"
      [] s = "Duplicates" -> "handle_duplicates"
      [] s = "Missing"    -> "handle_missing_values"
      [] s = "Types"      -> "convert_data_types"
      [] s = "Outliers"   -> "handle_outliers"
      [] s = "Encoding"   -> "encode_categorical_variables"
      [] s = "Scaling"    -> "scale_features"
      [] s = "Selection"  -> "select_features"
      [] s = "Reduction"  -> "reduce_dimensions"

\* The diagnostics of stage s among the log entries.
EmittedBy(e, s) ==
    \/ e.msg = "Error in" /\ e.m = StageFunction(s)
    \/ e.msg \in (CASE s = "Cleaning"   -> {"Basic cleaning completed."}
                    [] s = "Duplicates" -> {"Removed duplicate rows."}
                    [] s = "Missing"    -> {"Handled missing values",
                                            "Consider dropping this column."}
                    [] s = "Types"      -> {"Converted column to datetime.",
                                            "Converted column to numeric."}
                    [] s = "Outliers"   -> {"Found outliers", "Clipped outliers"}
                    [] s = "Encoding"   -> {"One-hot encoded column", "Label encoded column"}
                    [] s = "Scaling"    -> {"Scaled numeric columns"}
                    [] s = "Selection"  -> {"Removed constant columns.",
                                            "Removed highly correlated columns."}
                    [] s = "Reduction"  -> {"Reduced dimensions"})

\* C1: the stages a run has executed follow the fixed order Cleaning,
\* Duplicates, Missing, Types, Outliers, Encoding, Scaling, Selection,
\* Reduction, none of them twice; the stage a run stands at comes after all
\* it has executed; and a run that reached Done has executed Cleaning and
\* Types, whatever the flags.
C1_FixedStageOrder ==
    /\ \A i, j \in DOMAIN ran : i < j => Place(ran[i]) < Place(ran[j])
    /\ pc \in Range(Stages) => \A i \in DOMAIN ran : Place(ran[i]) < Place(pc)
    /\ pc = "Done" => {"Cleaning", "Types"} \subseteq Range(ran)

\* A first run that reached Done with two optional stages enabled.
C1_Witness ==
    pc = "Done" /\ runs = 1 /\ ran = <<"Cleaning", "Missing", "Types", "Scaling">>

\* C2: a step that finds the flag of an optional stage not set leaves the
\* table, the caller's table, the log and the stages executed as they were,
\* and reads no strategy; and the log of a run never holds a diagnostic of
\* an optional stage whose flag is not set.
C2_SkippedStageIsSilent ==
    [][/\ \A s \in Optional :
              Skipping(s) => /\ df' = df
                             /\ original_data' = original_data
                             /\ log' = log
                             /\ ran' = ran
                             /\ cfg'.method[s] = "unread"
       /\ \A s \in Optional :
              (\E i \in DOMAIN log' : EmittedBy(log'[i], s)) => cfg'.flag[s] = "on"]_vars

\* A run that skipped Encoding between two stages it executed.
C2_Witness ==
    /\ pc = "Completing"
    /\ cfg.flag["Missing"] = "on"
    /\ cfg.flag["Encoding"] = "off"
    /\ cfg.flag["Scaling"] = "on"

\* A step in which an enabled stage logs an error of its own.
StageErrorStep ==
    \E s \in Optional :
        /\ Applying(s)
        /\ Len(log') > Len(log)
        /\ log'[Len(log')] = Error(StageFunction(s))

\* C3 (as the specification states it): an enabled stage that raises an
\* internal error hands on exactly the table it received.
C3_FailedStageReturnsItsInput == [][StageErrorStep => df' = df]_vars

\* The strategies the specification allows for a stage.
ClosedStrategies(s) ==
    CASE s = "Duplicates" -> {"first", "last", "all"}
      [] s = "Missing"    -> {"drop", "mean", "median", "most_frequent", "constant"}
      [] s = "Outliers"   -> {"iqr", "zscore"}
      [] s = "Encoding"   -> {"auto", "onehot", "label"}
      [] s = "Scaling"    -> {"standard", "robust"}
      [] s = "Selection"  -> {"variance", "correlation"}
      [] s = "Reduction"  -> {"0.5", "0.95", "1.0"}

\* The configuration of the run names a strategy outside the closed set.
InvalidStrategy ==
    \E s \in Optional : cfg.method[s] \notin ClosedStrategies(s) \cup {"unread"}

\* C4 (as the specification states it): a run whose configuration names a
\* strategy outside a stage's closed set executes no stage, changes no
\* table and ends Failed.
C4_InvalidStrategyAbortsBeforeAnyStage ==
    InvalidStrategy => ran = <<>> /\ original_data = uploaded /\ pc = "Failed"

\* C5 (as the specification states it): the table the caller passed in
\* holds what was uploaded, after any number of runs.
C5_CallerTableUntouched == original_data = uploaded

\* C6: a run that reached Done returned its table to the caller and raised
\* nothing; a run is Failed only by an exception raised outside every
\* stage (never by a stage's own error), which is logged and raised to the
\* caller, no stage running after it and no completion being logged; and a
\* run that stands at an optional stage or at its completion can take its
\* next step (a mandatory stage is a step with no condition).
C6_TerminalOutcomes ==
    /\ pc = "Done" =>
           /\ raised = "none"
           /\ processed_data.set
           /\ ProcessedTable = df
           /\ log[Len(log)] = Info("Data preparation completed successfully.")
    /\ pc = "Failed" =>
           /\ raised # "none"
           /\ ~mapping
           /\ \E i \in DOMAIN log : log[i] = Error("prepare_data")
           /\ log[Len(log)].sev = "error"
           /\ ran = <<"Cleaning">>
           /\ \A i \in DOMAIN log : log[i] # Info("Data preparation completed successfully.")
    /\ (\E i \in DOMAIN log : \E s \in Range(Stages) : log[i] = Error(StageFunction(s)))
           /\ mapping => pc # "Failed"
    /\ pc \in Optional \cup {"Completing"}
           => ENABLED (Complete \/ Fail \/ \E s \in Optional : Skip(s))

\* A run that failed after an earlier run had returned a table.
C6_Witness == pc = "Failed" /\ processed_data.set /\ runs = 2

\* C7 (as the specification states it): when a run has failed, the uploaded
\* table is still there with the content it was uploaded with.
C7_FailedRunKeepsUpload == pc = "Failed" => original_data = uploaded

\* C8 (as the specification states it): a run started by the same caller on
\* the same table with the same configuration as the run before it returns
\* the same table and logs the same diagnostics.
C8_SecondRunRepeatsFirst ==
    [][(pc = "Done" /\ pc' = "Done" /\ runs' = runs + 1)
           => (log' = log /\ ProcessedTable' = ProcessedTable)]_vars

\* C9: a step that applies the Duplicate Resolver (first, last or all) or
\* the Missing-Value Imputer with drop leaves at most as many rows as it
\* found, and a step that applies the Outlier Handler (iqr or zscore)
\* leaves exactly as many.
C9_RowCountMonotone ==
    [][/\ (Applying("Duplicates") /\ cfg'.method["Duplicates"] \in {"first", "last", "all"})
              => NRows(df') <= NRows(df)
       /\ (Applying("Missing") /\ cfg'.method["Missing"] = "drop")
              => NRows(df') <= NRows(df)
       /\ (Applying("Outliers") /\ cfg'.method["Outliers"] \in {"iqr", "zscore"})
              => NRows(df') = NRows(df)]_vars

\* A run in which the Duplicate Resolver removed a row and the Outlier
\* Handler then ran.
C9_Witness ==
    /\ pc = "Encoding"
    /\ cfg.method["Duplicates"] = "first"
    /\ cfg.method["Outliers"] = "iqr"
    /\ NRows(df) < NRows(uploaded)

Calling(s) == pc = "Given" /\ ran' = <<s>>

CalledWith(s, method) == Calling(s) /\ cfg'.method[s] = method

UniqueNames(t) == \A i, j \in 1..NCols(t) : i # j => t.cols[i].name # t.cols[j].name

\* C11 (as the specification states it): when the columns of the table
\* given to the Cleaner have pairwise distinct names, the columns of the
\* table the Cleaner returns have pairwise distinct names.
C11_CanonicalNamesUnique ==
    (pc = "Called" /\ ran = <<"Cleaning">> /\ UniqueNames(uploaded)) => UniqueNames(df)

\* C12 (as the specification states it): the Cleaner called on the table
\* the Cleaner returned returns that table.
C12_CleanerIdempotent == [][(pc = "Called" /\ pc' = "CalledAgain") => df' = df]_vars

\* The row of the table that carries the label lbl.
RowAt(t, lbl) == Row(t, CHOOSE r \in 1..NRows(t) : t.idx[r] = lbl)

\* The positions of the rows of t equal to row r on every column.
Occurrences(t, r) == {q \in 1..NRows(t) : Row(t, q) = Row(t, r)}

\* The labels of the rows the strategy keeps: the first or the last of the
\* occurrences of a row, or the rows that occur once.
Survivors(t, keep) ==
    {t.idx[r] : r \in {q \in 1..NRows(t) :
        CASE keep = "first" -> \A o \in Occurrences(t, q) : q <= o
          [] keep = "last"  -> \A o \in Occurrences(t, q) : o <= q
          [] keep = "all"   -> Occurrences(t, q) = {q}}}

\* The rows of out are rows of t, in the order and with the cells they have
\* in t, under the same columns.
RowsOf(out, t) ==
    /\ [i \in 1..NCols(out) |-> [out.cols[i] EXCEPT !.vals = <<>>]]
           = [i \in 1..NCols(t) |-> [t.cols[i] EXCEPT !.vals = <<>>]]
    /\ \A k \in 1..NRows(out) : out.idx[k] \in Range(t.idx) /\ Row(out, k) = RowAt(t, out.idx[k])
    /\ \A k \in 1..(NRows(out) - 1) : out.idx[k] < out.idx[k + 1]

\* C13: the Duplicate Resolver called with first, last or all returns the
\* rows of its input that are the first occurrence, the last occurrence or
\* the only occurrence of their content (missing equal to missing), in
\* input order and with their cells.
C13_DuplicateResolverKeeps ==
    [][\A keep \in {"first", "last", "all"} :
          CalledWith("Duplicates", keep)
              => RowsOf(df', df) /\ Range(df'.idx) = Survivors(df, keep)]_vars

\* The Duplicate Resolver has kept the last occurrences of five rows, two of
\* which occur twice, one with a missing value.
C13_Witness ==
    /\ pc = "Called"
    /\ cfg.method["Duplicates"] = "last"
    /\ NRows(uploaded) = 5
    /\ df.idx = <<2, 3, 4>>
    /\ IsNA(df.cols[2].vals[1])

\* A first run of prepare_data that has returned, with the Duplicate
\* Resolver enabled with first and every other flag not set.
OnlyDuplicatesFirst ==
    /\ pc = "Done"
    /\ runs = 1
    /\ Enabled(cfg) = {"Duplicates"}
    /\ cfg.method["Duplicates"] = "first"

\* "Removed n duplicate rows."
Removed(n) == Entry("info", "Removed duplicate rows.", <<>>, n, "")

\* C14 (as the specification states it): a run with only the Duplicate
\* Resolver enabled, with first, returns the rows of the uploaded table
\* without the later occurrences, and its log is the one diagnostic
\* "Removed N duplicate rows.".
C14_OnlyOneDiagnostic ==
    OnlyDuplicatesFirst
        => /\ log = <<Removed(NRows(uploaded) - NRows(df))>>
           /\ Range(df.idx) = Survivors(uploaded, "first")

\* C14 (amended): the step of a run that applies the Duplicate Resolver
\* with first keeps the first occurrences among the rows the Cleaner left
\* and appends the one diagnostic "Removed N duplicate rows." with N the
\* rows it removed; and the log of a returned run with only the Duplicate
\* Resolver enabled holds exactly one diagnostic of the Duplicate Resolver,
\* Removed N with N the uploaded rows less the returned rows, next to the
\* diagnostics of prepare_data itself, the Cleaner and the Type Coercer.
C14_OneResolverDiagnostic ==
    [][/\ (Applying("Duplicates") /\ cfg'.method["Duplicates"] = "first")
              => /\ RowsOf(df', df)
                 /\ Range(df'.idx) = Survivors(df, "first")
                 /\ log' = Append(log, Removed(NRows(df) - NRows(df')))
       /\ OnlyDuplicatesFirst'
              => /\ Cardinality({i \in DOMAIN log' : EmittedBy(log'[i], "Duplicates")}) = 1
                 /\ \E i \in DOMAIN log' : log'[i] = Removed(NRows(uploaded') - NRows(df'))
                 /\ \A i \in DOMAIN log' :
                        \/ EmittedBy(log'[i], "Duplicates")
                        \/ EmittedBy(log'[i], "Cleaning")
                        \/ EmittedBy(log'[i], "Types")
                        \/ log'[i] \in {Info("Starting data preparation..."),
                                        Info("Data preparation completed successfully.")}]_vars

\* A run on three rows, one of them a repetition, with only the Duplicate
\* Resolver enabled: it returned two rows and logged "Removed 1 duplicate
\* rows.".
C14_Witness ==
    /\ OnlyDuplicatesFirst
    /\ NRows(uploaded) = 3
    /\ NRows(df) = 2
    /\ \E i \in DOMAIN log : log[i] = Removed(1)

\* The table of the outlier scenario: the column [1, 2, 3, 4, 100].
Scenario15 == <<N(1), N(2), N(3), N(4), N(100)>>

\* Q3 + 1.5 (Q3 - Q1) for the quartiles of the numbers rs.
UpperFence(rs) ==
    LET fence(q1, q3) == RAdd(q3, RMul(RNorm(3, 2), RSub(q3, q1)))
    IN  fence(Quantile(rs, 1, 4), Quantile(rs, 3, 4))

\* Q1 - 1.5 (Q3 - Q1) for the quartiles of the numbers rs.
LowerFence(rs) ==
    LET fence(q1, q3) == RSub(q1, RMul(RNorm(3, 2), RSub(q3, q1)))
    IN  fence(Quantile(rs, 1, 4), Quantile(rs, 3, 4))

\* The Outlier Handler has been called with iqr on the scenario's table.
Called15 ==
    /\ pc = "Called"
    /\ cfg.method["Outliers"] = "iqr"
    /\ NCols(uploaded) = 1
    /\ uploaded.cols[1].vals = Scenario15

\* C15 (as the specification states it): the Outlier Handler with iqr
\* leaves 1, 2, 3, 4 and turns 100 into Q3 + 1.5 IQR of the quartiles of
\* [1, 2, 3, 4], which is 5.5.
C15_ClipsToFenceOfInliers ==
    Called15 => df.cols[1].vals
                    = <<N(1), N(2), N(3), N(4),
                        Num(UpperFence(<<RInt(1), RInt(2), RInt(3), RInt(4)>>))>>

\* C15 (amended): the Outlier Handler with iqr replaces every value of a
\* numeric column below Q1 - 1.5 IQR or above Q3 + 1.5 IQR by that bound and
\* leaves the others, Q1, Q3 and IQR being the quartiles of all the values
\* of the column; of [1, 2, 3, 4, 100] it leaves 1, 2, 3, 4 and turns 100
\* into 7 (Q1 = 2, Q3 = 4).
C15_ClipsToFenceOfColumn ==
    /\ Called15 => df.cols[1].vals = <<N(1), N(2), N(3), N(4), N(7)>>
    /\ (pc = "Called" /\ cfg.method["Outliers"] = "iqr" /\ ColNames(uploaded) = << <<"v">> >>)
           => LET clipped(rs) ==
                      \A r \in 1..NRows(df) :
                          df.cols[1].vals[r]
                              = IF RLt(UpperFence(rs), rs[r]) THEN Num(UpperFence(rs))
                                ELSE IF RLt(rs[r], LowerFence(rs)) THEN Num(LowerFence(rs))
                                ELSE Num(rs[r])
              IN  clipped([r \in 1..NRows(uploaded) |-> Rat(uploaded.cols[1].vals[r])])

\* The Outlier Handler has clipped the 100 of the scenario and reported one
\* outlier.
C15_Witness ==
    /\ Called15
    /\ df.cols[1].vals[5] = N(7)
    /\ \E i \in DOMAIN log : log[i].msg = "Found outliers" /\ log[i].n = 1

\* The distinct non-missing values of a column.
DistinctValues(c) == {c.vals[r] : r \in {q \in DOMAIN c.vals : ~IsNA(c.vals[q])}}

\* The positions of the columns of t named {c.name}_{value} for a value of c.
Indicators(t, c) ==
    {j \in 1..NCols(t) :
        \E v \in DistinctValues(c) : t.cols[j].name = c.name \o <<"_">> \o ValueText(v)}

\* The indicator at position j of out is set in row r exactly for one
\* value of the column c, which c holds in that row.
IndicatorOf(out, j, c) ==
    \E v \in DistinctValues(c) :
        /\ out.cols[j].name = c.name \o <<"_">> \o ValueText(v)
        /\ out.cols[j].dtype = "bool"
        /\ \A r \in DOMAIN c.vals : out.cols[j].vals[r] = Bool(c.vals[r] = v)

\* C16: the Categorical Encoder called with onehot removes every text
\* column with k >= 1 distinct non-missing values and holds in its place
\* exactly k - 1 columns named {original}_{value}, each for a different one
\* of the values, boolean, set in the rows that hold its value, so that at
\* most one of them is set in a row; the other columns are as they were.
C16_OneHotIndicators ==
    [][CalledWith("Encoding", "onehot")
          => /\ \A i \in 1..NCols(df) :
                    IF df.cols[i].dtype # "obj"
                    THEN \E j \in 1..NCols(df') : df'.cols[j] = df.cols[i]
                    ELSE DistinctValues(df.cols[i]) # {}
                         => /\ ~HasCol(df', df.cols[i].name)
                            /\ Cardinality(Indicators(df', df.cols[i]))
                                   = Cardinality(DistinctValues(df.cols[i])) - 1
                            /\ \A j \in Indicators(df', df.cols[i]) :
                                   IndicatorOf(df', j, df.cols[i])
                            /\ \A r \in 1..NRows(df) :
                                   Cardinality({j \in Indicators(df', df.cols[i]) :
                                                   df'.cols[j].vals[r] = Bool(TRUE)}) <= 1
             /\ UniqueNames(df')
             /\ \A j \in 1..NCols(df') :
                    \/ \E i \in 1..NCols(df) : df.cols[i].dtype # "obj" /\ df'.cols[j] = df.cols[i]
                    \/ \E i \in 1..NCols(df) : df.cols[i].dtype = "obj"
                                               /\ j \in Indicators(df', df.cols[i])]_vars

\* The Categorical Encoder has replaced a column of three distinct values
\* and a missing one by two indicators.
C16_Witness ==
    /\ pc = "Called"
    /\ cfg.method["Encoding"] = "onehot"
    /\ NRows(uploaded) = 5
    /\ Cardinality(DistinctValues(uploaded.cols[1])) = 3
    /\ ColNames(df) = << <<"w">>, <<"c", "_", "b">>, <<"c", "_", "c">> >>

\* C17 (as the specification states it): the Feature Selector, called with
\* either of its methods, returns no column that held exactly one distinct
\* value when it was called.
C17_ConstantColumnsRemoved ==
    [][\A method \in {"variance", "correlation"} :
          CalledWith("Selection", method)
              => \A i \in 1..NCols(df) :
                     Cardinality(DistinctValues(df.cols[i])) = 1
                         => ~HasCol(df', df.cols[i].name)]_vars

\* C18 (as the specification states it): a Cleaner that logs an error of
\* its own returns the table it was given, with the names, cells and
\* columns it had.
C18_FailedCleanerReturnsItsInput ==
    [][(Calling("Cleaning") /\ Error("basic_cleaning") \in Range(log')) => df' = df]_vars

\* A column mean and median cannot be taken of: it holds text that is no
\* number.
NoNumbers(c) == \E r \in DOMAIN c.vals : ~IsNA(c.vals[r]) /\ ~FloatOk(c.vals[r])

\* C19 (as the specification states it): after the Missing-Value Imputer
\* is called with mean or median, a column the strategy fails on is as it
\* was, and every column of numbers that had a value holds no missing
\* value, whether it stands left or right of a column the strategy fails
\* on.
C19_OtherColumnsStillImputed ==
    [][\A method \in {"mean", "median"} :
          CalledWith("Missing", method)
              => \A i \in 1..NCols(df) :
                     /\ (df.cols[i].dtype = "num" /\ Observed(df.cols[i]) # <<>>)
                            => MissingCount(df'.cols[i]) = 0
                     /\ NoNumbers(df.cols[i]) => df'.cols[i] = df.cols[i]]_vars

\* The rows of t that hold a value in every column left of column i.
CompleteBefore(t, i) ==
    {r \in 1..NRows(t) : \A j \in 1..(i - 1) : ~IsNA(t.cols[j].vals[r])}

\* Those of them in which column i holds none.
MissingAt(t, i) == {r \in CompleteBefore(t, i) : IsNA(t.cols[i].vals[r])}

\* The diagnostics of the turn of column i under drop: none when the rows
\* left hold no missing value in it, else the warning when more than half of
\* them do, and the info diagnostic.
DropTurnLog(t, i) ==
    IF MissingAt(t, i) = {} THEN <<>>
    ELSE (IF 2 * Cardinality(MissingAt(t, i)) > Cardinality(CompleteBefore(t, i))
          THEN <<Entry("warning", "Consider dropping this column.", t.cols[i].name, 0, "")>>
          ELSE <<>>)
         \o <<Entry("info", "Handled missing values", t.cols[i].name, 0, "drop")>>

\* C20: the Missing-Value Imputer called with drop returns the rows of its
\* input that hold a value in every column, in input order; and its
\* diagnostics are those of the columns from left to right, each column
\* judged on the rows that the columns left of it have left, a column with
\* no missing value among those rows giving no diagnostic.
C20_DropShrinksAsItGoes ==
    [][CalledWith("Missing", "drop")
          => /\ RowsOf(df', df)
             /\ Range(df'.idx)
                    = {df.idx[r] : r \in CompleteBefore(df, NCols(df) + 1)}
             /\ log' = Flatten([i \in 1..NCols(df) |-> DropTurnLog(df, i)])]_vars

\* The Missing-Value Imputer has dropped rows for the columns p and q, and
\* given no diagnostic for the column r, whose missing value went with a
\* row dropped before its turn.
C20_Witness ==
    /\ pc = "Called"
    /\ cfg.method["Missing"] = "drop"
    /\ ColNames(uploaded) = << <<"p">>, <<"q">>, <<"r">> >>
    /\ MissingCount(uploaded.cols[3]) > 0
    /\ \E i \in DOMAIN log : log[i].msg = "Handled missing values" /\ log[i].col = <<"p">>
    /\ \E i \in DOMAIN log : log[i].msg = "Handled missing values" /\ log[i].col = <<"q">>
    /\ \A i \in DOMAIN log : log[i].col # <<"r">>

(***************************************************************************)
(* The claims of the specification, C21 to C27.                            *)
(***************************************************************************)
\* The first value, in row order, that occurs as often as any value of obs.
FirstMostFrequent(obs) ==
    LET count(v) == Cardinality({i \in DOMAIN obs : obs[i] = v})
        most(i)  == \A j \in DOMAIN obs : count(obs[j]) <= count(obs[i])
    IN  obs[CHOOSE i \in DOMAIN obs : most(i) /\ \A j \in 1..(i - 1) : ~most(j)]

\* C21: the Missing-Value Imputer called with most_frequent on a table whose
\* columns each hold a value fills every missing cell of a column with the
\* most frequent value of the column, the first in row order of the values
\* of the highest frequency, and leaves the other cells as they were.
C21_MostFrequentFirstInRowOrder ==
    [][(CalledWith("Missing", "most_frequent")
          /\ \A i \in 1..NCols(df) : Observed(df.cols[i]) # <<>>)
          => /\ ColNames(df') = ColNames(df)
             /\ df'.idx = df.idx
             /\ \A i \in 1..NCols(df) :
                   df'.cols[i].vals
                     = [r \in 1..NRows(df) |->
                           IF IsNA(df.cols[i].vals[r])
                           THEN FirstMostFrequent(Observed(df.cols[i]))
                           ELSE df.cols[i].vals[r]]]_vars

\* C22: the Type Coercer leaves number and date columns as they are; a text
\* column that parses as dates becomes a date column, one that does not but
\* parses as numbers becomes a number column, one that parses as neither
\* stays as it is; and this holds for every column, whatever the columns
\* left of it hold.  (A column whose date parsing fails on a value that is
\* no text is not constrained here.)
C22_EveryTextColumnProbed ==
    [][Calling("Types")
          => /\ ColNames(df') = ColNames(df)
             /\ df'.idx = df.idx
             /\ \A i \in 1..NCols(df) :
                   df'.cols[i] =
                     CASE df.cols[i].dtype # "obj" -> df.cols[i]
                       [] DatetimeOutcome(df.cols[i]) = "ok" -> AsDatetime(df.cols[i])
                       [] DatetimeOutcome(df.cols[i]) = "TypeError" -> df'.cols[i]
                       [] ~NumericRaises(df.cols[i]) -> AsNumeric(df.cols[i])
                       [] OTHER -> df.cols[i]]_vars

\* The value of the cell v of a column with the observed numbers rs after
\* clipping to the bounds of the strategy: min(max(v, lower), upper).  The
\* bounds of iqr are the fences; those of zscore are mean - 3 std and
\* mean + 3 std, v being below or above them when (v - mean)^2 > 9 var.
ClippedCell(v, rs, method) ==
    LET mean == RMean(rs)
        far(dev) == RLt(RInt(0), dev) /\ RLt(RMul(RInt(9), SampleVar(rs)), RMul(dev, dev))
    IN  IF IsNA(v) THEN v
        ELSE IF method = "iqr"
        THEN IF RLt(Rat(v), LowerFence(rs)) THEN Num(LowerFence(rs))
             ELSE IF RLt(UpperFence(rs), Rat(v)) THEN Num(UpperFence(rs))
             ELSE v
        ELSE IF Len(rs) < 2 THEN v
        ELSE IF far(RSub(mean, Rat(v))) THEN ZBound(ZBounds(rs), "-")
        ELSE IF far(RSub(Rat(v), mean)) THEN ZBound(ZBounds(rs), "+")
        ELSE v

\* C23: the Outlier Handler called with iqr or zscore keeps the rows and the
\* columns of its input, leaves every column that is not numeric as it was,
\* and turns every value of a numeric column into min(max(value, lower),
\* upper) for the bounds the strategy gives on the values of that column.
C23_ClipsEveryNumericColumn ==
    [][\A method \in OutlierMethods :
          CalledWith("Outliers", method)
          => /\ ColNames(df') = ColNames(df)
             /\ df'.idx = df.idx
             /\ \A i \in 1..NCols(df) :
                   IF df.cols[i].dtype # "num" THEN df'.cols[i] = df.cols[i]
                   ELSE /\ df'.cols[i].dtype = "num"
                        /\ \A r \in 1..NRows(df) :
                              df'.cols[i].vals[r]
                                = ClippedCell(df.cols[i].vals[r],
                                              ObservedNums(df.cols[i]), method)]_vars

\* The Outlier Handler called with zscore on eleven rows has clipped the one
\* value far above the others in one column and the one far below in
\* another.
C23_Witness ==
    /\ pc = "Called"
    /\ cfg.method["Outliers"] = "zscore"
    /\ NRows(uploaded) = 11
    /\ ColNames(uploaded) = << <<"h", "i">>, <<"l", "o">>, <<"t">> >>
    /\ NRows(df) = 11
    /\ df.cols[1].vals[1].s = <<"+">>
    /\ df.cols[2].vals[2].s = <<"-">>
    /\ df.cols[1].vals[2] = N(0)
    /\ df.cols[3].vals[1] = Text(<<"x">>)

\* The column holds at least two distinct values.
Varies(c) == Cardinality(DistinctValues(c)) > 1

\* The columns left of column j of t that correlate with it beyond 0.95.
CorrelatedBefore(t, j) ==
    {i \in 1..(j - 1) : /\ t.cols[i].dtype = "num"
                        /\ t.cols[j].dtype = "num"
                        /\ HighlyCorrelated(t.cols[i], t.cols[j])}

\* C24: of the columns of its input that are not constant, the Feature
\* Selector drops exactly those that correlate beyond 0.95 with a column
\* left of them, whether or not that column is dropped itself; so the first
\* of them is never dropped.
C24_LaterColumnOfPairDropped ==
    [][\A method \in {"variance", "correlation"} :
          CalledWith("Selection", method)
              => \A j \in 1..NCols(df) :
                    Varies(df.cols[j])
                        => (HasCol(df', df.cols[j].name) <=> CorrelatedBefore(df, j) = {})]_vars

\* The same on the tables of number columns only.
C24_OnNumberColumns ==
    [][\A method \in {"variance", "correlation"} :
          (CalledWith("Selection", method)
             /\ \A j \in 1..NCols(df) : df.cols[j].dtype = "num")
              => \A j \in 1..NCols(df) :
                    Varies(df.cols[j])
                        => (HasCol(df', df.cols[j].name) <=> CorrelatedBefore(df, j) = {})]_vars

\* C25: the Dimensionality Reducer called on a table with fewer than two
\* numeric columns returns the table as it was and logs an info diagnostic.
C25_TooFewColumnsIsReported ==
    [][(Calling("Reduction") /\ Len(SelectDtypes(df, {"num"})) < 2)
          => /\ df' = df
             /\ \E i \in DOMAIN log' : log'[i].sev = "info"]_vars

\* The step in which the Dimensionality Reducer of a run replaces the
\* numeric columns by components.
Reducing ==
    /\ Applying("Reduction")
    /\ \E i \in DOMAIN log' : i \notin DOMAIN log /\ log'[i].msg = "Reduced dimensions"

\* C26: when the Dimensionality Reducer of a run replaces the numeric
\* columns by components, the table keeps its rows (their number and their
\* labels), every column that is not numeric keeps its values row by row,
\* and no cell of a component column is missing, whatever rows the earlier
\* stages of the run removed.
C26_ReducerKeepsRowAlignment ==
    [][Reducing
          => /\ NRows(df') = NRows(df)
             /\ df'.idx = df.idx
             /\ \A i \in 1..NCols(df) :
                   df.cols[i].dtype # "num"
                       => /\ HasCol(df', df.cols[i].name)
                          /\ df'.cols[ColPos(df', df.cols[i].name)].vals = df.cols[i].vals
             /\ \A i \in 1..NCols(df') :
                   ~HasCol(df, df'.cols[i].name) => MissingCount(df'.cols[i]) = 0]_vars

\* user_interface.py line 163: the strategies the selectbox of the
\* Missing-Value Imputer offers.
UiMissingMethods == {"drop", "mean", "median", "mode", "constant"}

\* Every column the Missing-Value Imputer reports as handled holds no
\* missing value in the table it returns.
HandledColumnsComplete ==
    \A i \in DOMAIN log' :
        log'[i].msg = "Handled missing values"
            => /\ HasCol(df', log'[i].col)
               /\ MissingCount(df'.cols[ColPos(df', log'[i].col)]) = 0

\* C27: whichever strategy of the user interface the Missing-Value Imputer
\* is called with, a column it reports as handled with that strategy holds
\* no missing value in its output.
C27_UiStrategiesAreImplemented ==
    [][\A method \in UiMissingMethods :
          CalledWith("Missing", method) => HandledColumnsComplete]_vars

\* The same for the strategies of the user interface other than mode.
C27_ImplementedStrategies ==
    [][\A method \in UiMissingMethods \ {"mode"} :
          CalledWith("Missing", method) => HandledColumnsComplete]_vars

=============================================================================
